---- MODULE Spec2Model ----
(***************************************************************************)
(* Trust & Control Core of the gateway: the approval coordinator           *)
(* (agents/approval/manager.ts), the permission-mode enforcer and its tool *)
(* wrapper (the permission-mode part of plugins/plugin-security.ts), and   *)
(* the rate limiter (the RateLimiter class of config/sessions/encryption.ts)*)
(* with the gateway's WebSocket connection handler that consults it.        *)
(*                                                                         *)
(* Strings whose characters matter (paths) are sequences of one-character  *)
(* strings; the absent value (undefined) and the empty string, both falsy  *)
(* in the source, are the empty sequence.                                  *)
(***************************************************************************)
EXTENDS Integers, Sequences, FiniteSets, TLC

\* ------------------------------------------------------------------ bounds

\* Approval requests created in one run of the model (request ids 1..MaxRequests).
MaxRequests == 2
\* Invocations of wrapped tools in one run of the model.
MaxCalls == 2
\* Longest file path drawn as an input of checkPermissionMode.
MaxPathLen == 5
\* Advances of the clock in one run of the rate limiter.
MaxTicks == 2
\* Largest configured limit (connections per minute, RPC calls per second,
\* authentication failures before lockout) the rate limiter is built with.
MaxLimit == 2
\* Authentication failures recorded for one IP between two clears.
MaxFailures == 7
\* WebSocket upgrades in one run of the gateway.
MaxUpgrades == 2
\* Phrases in one input of the prompt-injection detector.
MaxPhrases == 3
\* Calls of encryptSessionData and decryptSessionData in one run.
MaxCryptoCalls == 3
\* Admitted checks of one key, and recorded failures of one IP, in a run of the
\* limiter with its janitor.
MaxJanitorOps == 2
\* Characters in the content argument of a wrapped write.
MaxContentLength == 250
\* Segments in one file path given to resolveSandboxPath.
MaxSegments == 5

\* ------------------------------------------------------------- value sets

None == "none"

\* PermissionMode, plus the unset mode (undefined).
PermissionModes == {"plan", "ask", "auto", "dangerously-skip"}
ModeValues == PermissionModes \cup {None}

Operations == {"read", "write", "exec"}

\* ApprovalDecision
Decisions == {"allow-once", "allow-session", "allow-always", "deny"}

\* Session keys and run ids; each run belongs to one session.
Sessions == {"S1", "S2"}
Runs == {"R1", "R2", "R3"}
RunContexts ==
  { [sessionKey |-> "S1", runId |-> "R1"],
    [sessionKey |-> "S1", runId |-> "R2"],
    [sessionKey |-> "S2", runId |-> "R3"] }

RequestIds == 1..MaxRequests

\* The gateway clients that answer approval requests.
Clients == {"A", "B"}

\* Characters of the paths drawn as inputs.
PathChars == {"/", "h", ".", "~"}

\* process.env.HOME
EnvHome == <<"/", "h">>

\* Client IPs and connection ids seen by the rate limiter, and the IPs whose
\* limiter state the limiter specifications follow.
Ips == {"ip1", "ip2"}
TrackedIps == {"ip1"}
ConnIds == {"conn1"}
\* The keys under which the limiter can be asked: those IPs, a loopback peer,
\* the key of a peer without an address, and the connection ids.
LimiterKeys ==
  Ips \cup {"127.0.0.1", "unknown"} \cup ConnIds
    \cup {"conn" \o ToString(i) : i \in 1..MaxUpgrades}

\* The window of checkConnection and of checkRpcCall, in milliseconds.
ConnectionWindowMs == 60000
RpcWindowMs == 1000
\* Milliseconds per minute (authLockoutWindowMinutes * 60_000).
MsPerMinute == 60000
\* The cap of the backoff multiplier.
MaxBackoff == 32
\* The janitor keeps RPC timestamps for one minute after the window.
RpcRetentionMs == 60000

\* ------------------------------------------------------------------ state

VARIABLES
  pendingApprovals,  \* manager.ts pendingApprovals: request id -> request
  timers,            \* request ids whose setTimeout timer is armed
  promise,           \* request id -> state of the promise requestApproval returned
  settleCalls,       \* request id -> number of calls of that promise's resolve/reject
  nextId,            \* the next fresh request id (crypto.randomUUID)
  eventEmitter,      \* whether setApprovalEventEmitter has installed an emitter
  events,            \* the events handed to the emitter, in order (type, request
                     \* id, and the session key or the decision)
  lastResult,        \* what the last resolveApproval call returned
  mode,              \* the value the context's mode getter returns
  calls,             \* invocations of wrapped tools, in order of invocation
  pmIn,              \* inputs of checkPermissionMode (pure-function check)
  pmOut,             \* its result, once computed: <<result>>
  now,               \* Date.now(), in milliseconds since the limiter was built
  ticks,             \* how often the clock has advanced
  config,            \* RateLimiter.config
  connectionsByIp,   \* IP -> timestamps of the connections in the window
  authFailuresByIp,  \* IP -> {failures, lockoutUntil, backoffMultiplier}
  rpcCallsByConnection, \* connection id -> timestamps of the calls in the window
  removed,           \* connection ids torn down (removeConnection was called)
  admitted,          \* history: IP or connection id -> the instants at which
                     \* checkConnection / checkRpcCall returned allowed
  lastCheck,         \* history: IP or connection id -> the last result of
                     \* checkConnection / checkRpcCall and its instant
  failureLog,        \* history: IP -> the instants of the recordAuthFailure
                     \* calls since the last clearAuthFailures
  lastFailure,       \* history: IP -> the last recordAuthFailure result and its instant
  cleared,           \* history: IPs cleared since their last recordAuthFailure
  authResult,        \* history: the last checkAuthAttempt: <<>> or <<[ip, result]>>
  sockets,           \* the WebSocket connections, in order of their upgrade
  fnIn,              \* the arguments of the function under check (pure-function
                     \* checks of the origin guard, the detector and the path guard)
  fnOut,             \* its result, once computed: <<result>>
  responses,         \* client -> the last response of chat.approval.respond to
                     \* that client: <<>> or <<response>>
  sessionEncryption, \* process.env.CLAWDBOT_SESSION_ENCRYPTION
  keyFile,           \* the file .session-key: <<>> or <<[length, key]>>
  stateDirWritable,  \* whether the key file can be created in the state directory
  cryptoCalls,       \* how many encrypt / decrypt calls were made
  lastCall,          \* history: the last such call: <<>> or <<[op, input, result, ...]>>
  sealed             \* history: the encrypt calls made, in order

approvalVars == <<pendingApprovals, timers, promise, settleCalls, nextId,
                  eventEmitter, events, lastResult>>
wrapperVars == <<mode, calls>>
limiterVars == <<now, ticks, config, connectionsByIp, authFailuresByIp,
                 rpcCallsByConnection, removed, admitted, lastCheck, failureLog,
                 lastFailure, cleared, authResult>>
\* The variables of the components that do not take part in the approval
\* specifications: the pure-function check, the rate limiter and the gateway's
\* connections.
\* The variables of the pure-function checks other than checkPermissionMode's,
\* and of the gateway's RPC handlers.
cryptoVars == <<sessionEncryption, keyFile, stateDirWritable, cryptoCalls, lastCall,
                sealed>>
utilityVars == <<fnIn, fnOut, responses, cryptoVars>>
pureVars == <<pmIn, pmOut, limiterVars, sockets, utilityVars>>
vars == <<pendingApprovals, timers, promise, settleCalls, nextId, eventEmitter,
          events, lastResult, mode, calls, pureVars>>

\* ------------------------------------------------------- string helpers

\* String.prototype.startsWith
StartsWith(s, p) == Len(p) <= Len(s) /\ SubSeq(s, 1, Len(p)) = p

\* s.replace("~", home) for an s that starts with "~": the first "~" is replaced.
ReplaceTilde(s, home) == home \o Tail(s)

\* All sequences over S of length at most n.
RECURSIVE SeqsUpTo(_, _)
SeqsUpTo(S, n) ==
  IF n = 0 THEN {<<>>}
  ELSE LET shorter == SeqsUpTo(S, n - 1)
       IN shorter \cup {Append(s, c) : s \in {t \in shorter : Len(t) = n - 1}, c \in S}

\* ------------------------------------------- permission-mode enforcer

\* resolveMode: the context's mode, read through its getter at call time.
ModeAtWrapTime == None

ResolveMode == mode

\* isWithinHome: a string-prefix test on the tilde-expanded path and home.
IsWithinHome(filePath, homeDir) ==
  IF homeDir = <<>> THEN FALSE
  ELSE LET resolved == IF StartsWith(filePath, <<"~">>)
                         THEN ReplaceTilde(filePath, EnvHome) ELSE filePath
           normalizedHome == IF StartsWith(homeDir, <<"~">>)
                               THEN ReplaceTilde(homeDir, EnvHome) ELSE homeDir
       IN StartsWith(resolved, normalizedHome)

Allowed == [allowed |-> TRUE, reason |-> <<>>]
Denied(tag, operation) == [allowed |-> FALSE, reason |-> <<tag, operation>>]

\* checkPermissionMode, with the mode already read (m).
CheckPermissionMode(operation, filePath, m, homeDir) ==
  IF m = None \/ m = "dangerously-skip" \/ m = "auto" THEN Allowed
  ELSE IF filePath # <<>> /\ IsWithinHome(filePath, homeDir) THEN Allowed
  ELSE IF m = "plan"
    THEN IF operation = "read" THEN Allowed
         ELSE Denied("Plan mode", operation)
  ELSE IF m = "ask"
    THEN IF operation = "read" THEN Allowed
         ELSE Denied("Ask mode: requires approval", operation)
  ELSE Allowed

\* ------------------------------------------------ approval coordinator

Without(f, ids) == [k \in DOMAIN f \ ids |-> f[k]]

Whitespace == {" "}

\* command.trim().split(/\s+/)[0]
RECURSIVE TrimStart(_)
TrimStart(s) ==
  IF s # <<>> /\ Head(s) \in Whitespace THEN TrimStart(Tail(s)) ELSE s

RECURSIVE TakeToken(_)
TakeToken(s) ==
  IF s = <<>> \/ Head(s) \in Whitespace THEN <<>>
  ELSE <<Head(s)>> \o TakeToken(Tail(s))

FirstToken(command) == TakeToken(TrimStart(command))

\* resolveApproval's allowlist pattern.
AllowlistPattern(decision, action) ==
  IF decision # "allow-always" THEN <<>>
  ELSE IF action.kind = "exec" /\ action.command # <<>>
    THEN FirstToken(action.command)
  ELSE IF action.kind \in {"write", "edit"} /\ action.filePath # <<>>
    THEN action.filePath
  ELSE <<>>

\* ApprovalResult
ApprovalResult(decision, action) ==
  [state |-> "fulfilled", approved |-> (decision # "deny"), decision |-> decision,
   allowlistPattern |-> AllowlistPattern(decision, action)]

Rejected(message) == [state |-> "rejected", error |-> message]

Unsettled == [state |-> "pending"]

\* A promise settles once: resolve and reject act only on a pending promise.
SettleOne(p, outcome) == IF p.state = "pending" THEN outcome ELSE p

\* The promise map after resolve/reject was called with `outcome` for each of ids.
Settled(ids, outcome) ==
  [k \in DOMAIN promise |-> IF k \in ids THEN SettleOne(promise[k], outcome)
                                         ELSE promise[k]]

Counted(ids) ==
  [k \in DOMAIN settleCalls |-> IF k \in ids THEN settleCalls[k] + 1
                                             ELSE settleCalls[k]]

\* hasPendingApproval
HasPendingApproval(id) == id \in DOMAIN pendingApprovals

\* getPendingApprovalCount
GetPendingApprovalCount == Cardinality(DOMAIN pendingApprovals)

Emit(log, event) == IF eventEmitter THEN Append(log, event) ELSE log

\* setApprovalEventEmitter
SetApprovalEventEmitter ==
  /\ ~eventEmitter
  /\ eventEmitter' = TRUE
  /\ UNCHANGED <<pendingApprovals, timers, promise, settleCalls, nextId, events,
                 lastResult, mode, calls, pureVars>>

\* setTimeout(..., timeoutMs): the request's single-shot timer is armed.
TimersUnarmed(id) == timers

ArmedTimers(id) == timers \cup {id}

\* What hasPendingApproval(id) returns to a subscriber while the emitter is
\* called with the approval_request of id: the entry has been stored by then.
PendingBeforeStore(id) == id \in DOMAIN pendingApprovals

PendingWhenEmitted(id) == id \in DOMAIN pendingApprovals'

\* The body of requestApproval: the promise executor arms the timer, stores the
\* entry and emits approval_request, all before the function returns.
RegisterApproval(sessionKey, runId, action) ==
  /\ nextId <= MaxRequests
  /\ nextId' = nextId + 1
  /\ timers' = ArmedTimers(nextId)
  /\ pendingApprovals' = pendingApprovals @@
       (nextId :> [request |-> [requestId |-> nextId, sessionKey |-> sessionKey,
                                runId |-> runId, action |-> action]])
  /\ promise' = promise @@ (nextId :> Unsettled)
  /\ settleCalls' = settleCalls @@ (nextId :> 0)
  /\ events' = Emit(events, [type |-> "approval_request", requestId |-> nextId,
                             sessionKey |-> sessionKey,
                             pending |-> PendingWhenEmitted(nextId)])
  /\ UNCHANGED <<eventEmitter, lastResult>>

\* requestApproval called by a caller other than the tool wrapper.
RequestApproval(sessionKey, runId, action) ==
  /\ RegisterApproval(sessionKey, runId, action)
  /\ UNCHANGED <<mode, calls, pureVars>>

\* The setTimeout callback of requestApproval.
PendingAfterTimeoutKept(id) == pendingApprovals

PendingAfterTimeout(id) == Without(pendingApprovals, {id})

TimerFire(id) ==
  /\ id \in timers
  /\ timers' = timers \ {id}
  /\ IF HasPendingApproval(id)
       THEN /\ pendingApprovals' = PendingAfterTimeout(id)
            /\ promise' = Settled({id}, Rejected("Approval request timed out"))
            /\ settleCalls' = Counted({id})
       ELSE UNCHANGED <<pendingApprovals, promise, settleCalls>>
  /\ UNCHANGED <<nextId, eventEmitter, events, lastResult, mode, calls, pureVars>>

\* resolveApproval
TimersAllCleared(id) == {}

TimersAfterResolve(id) == timers \ {id}

\* Whether the promise of id is settled while the emitter is called with the
\* approval_resolved of id: pending.resolve has been called by then.
SettledBeforeResolve(id) == promise[id].state # "pending"

SettledWhenEmitted(id) == promise'[id].state # "pending"

PendingAfterResolveKept(id) == pendingApprovals

PendingAfterResolve(id) == Without(pendingApprovals, {id})

\* resolveApproval's results: { ok: true } and
\* { ok: false, error: "Approval request not found or already resolved" }
OkResult == "ok"

NotFoundReportedOk == OkResult

NotFoundResult == "error: Approval request not found or already resolved"

\* The body of resolveApproval.
ResolveApprovalCall(id, decision) ==
  IF ~HasPendingApproval(id)
    THEN /\ lastResult' = NotFoundResult
         /\ UNCHANGED <<pendingApprovals, timers, promise, settleCalls, nextId,
                        eventEmitter, events>>
    ELSE LET pending == pendingApprovals[id]
         IN /\ timers' = TimersAfterResolve(id)
            /\ pendingApprovals' = PendingAfterResolve(id)
            /\ promise' = Settled({id}, ApprovalResult(decision, pending.request.action))
            /\ settleCalls' = Counted({id})
            /\ events' = Emit(events, [type |-> "approval_resolved", requestId |-> id,
                                       decision |-> decision,
                                       pending |-> PendingWhenEmitted(id),
                                       settled |-> SettledWhenEmitted(id)])
            /\ lastResult' = OkResult
            /\ UNCHANGED <<nextId, eventEmitter>>

\* resolveApproval called by a caller other than the gateway's handler.
ResolveApproval(id, decision) ==
  /\ ResolveApprovalCall(id, decision)
  /\ UNCHANGED <<mode, calls, pureVars>>

\* ------------------------------ chat.approval.respond (gateway handler)

\* isValidDecision
DecisionUnchecked(value) == TRUE

IsValidDecision(value) ==
  value \in {"allow-once", "allow-session", "allow-always", "deny"}

\* typeof p.requestId === "string" ? p.requestId.trim() : null. A requestId
\* parameter is [isString, padded, id]: whether it is a string, whether
\* whitespace surrounds it, and the request id its other characters name (0
\* when it has none); the trimmed id is 0 for null and for the empty string.
TrimmedRequestId(param) == IF param.isString THEN param.id ELSE 0

\* respond(false, undefined, errorShape(ErrorCodes.INVALID_REQUEST, message))
ErrorResponse(message) ==
  [ok |-> FALSE, requestId |-> 0, decision |-> "", code |-> "INVALID_REQUEST",
   message |-> message]

\* respond(true, { ok: true, requestId, decision }, undefined)
OkResponse(requestId, decision) ==
  [ok |-> TRUE, requestId |-> requestId, decision |-> decision, code |-> "",
   message |-> ""]

Respond(client, response) == responses' = [responses EXCEPT ![client] = <<response>>]

\* approvalHandlers["chat.approval.respond"], called for a request of client.
ApprovalRespond(client, requestIdParam, decision) ==
  LET requestId == TrimmedRequestId(requestIdParam)
  IN /\ IF requestId = 0
          THEN /\ Respond(client, ErrorResponse("requestId is required"))
               /\ UNCHANGED approvalVars
        ELSE IF ~IsValidDecision(decision)
          THEN /\ Respond(client, ErrorResponse("decision must be one of: \"allow-once\", \"allow-session\", \"allow-always\", \"deny\""))
               /\ UNCHANGED approvalVars
        ELSE IF ~HasPendingApproval(requestId)
          THEN /\ Respond(client,
                          ErrorResponse("Approval request not found or already resolved"))
               /\ UNCHANGED approvalVars
        ELSE /\ ResolveApprovalCall(requestId, decision)
             /\ Respond(client, IF lastResult' = OkResult
                                  THEN OkResponse(requestId, decision)
                                  ELSE ErrorResponse(lastResult'))
     /\ UNCHANGED <<mode, calls, pmIn, pmOut, limiterVars, sockets, fnIn, fnOut,
                    cryptoVars>>

\* cancelApprovalsForSession
MatchingSessionUnfiltered(sessionKey) == DOMAIN pendingApprovals

MatchingSession(sessionKey) ==
  {id \in DOMAIN pendingApprovals : pendingApprovals[id].request.sessionKey = sessionKey}

CancelApprovalsForSession(sessionKey) ==
  LET ids == MatchingSession(sessionKey)
  IN /\ timers' = timers \ ids
     /\ pendingApprovals' = Without(pendingApprovals, ids)
     /\ promise' = Settled(ids, Rejected("Approval cancelled"))
     /\ settleCalls' = Counted(ids)
     /\ UNCHANGED <<nextId, eventEmitter, events, lastResult, mode, calls, pureVars>>

\* cancelApprovalsForRun
MatchingRunWholeSession(runId) ==
  {id \in DOMAIN pendingApprovals :
     \E other \in DOMAIN pendingApprovals :
        /\ pendingApprovals[other].request.runId = runId
        /\ pendingApprovals[other].request.sessionKey =
             pendingApprovals[id].request.sessionKey}

MatchingRun(runId) ==
  {id \in DOMAIN pendingApprovals : pendingApprovals[id].request.runId = runId}

CancelApprovalsForRun(runId) ==
  LET ids == MatchingRun(runId)
  IN /\ timers' = timers \ ids
     /\ pendingApprovals' = Without(pendingApprovals, ids)
     /\ promise' = Settled(ids, Rejected("Approval cancelled - run aborted"))
     /\ settleCalls' = Counted(ids)
     /\ UNCHANGED <<nextId, eventEmitter, events, lastResult, mode, calls, pureVars>>

\* ------------------------------------------------------- tool wrapper

\* The tools wrapToolWithPermissionCheck is applied to here, with the
\* operation each is wrapped for.
WrappedTools ==
  { [name |-> "read", operation |-> "read"],
    [name |-> "write", operation |-> "write"] }

HomeDir == <<"/", "h">>

\* PermissionModeContext values (the mode is the shared getter); sessionKey
\* or runId may be missing.
WrapContexts ==
  { [homeDir |-> h, sessionKey |-> c.sessionKey, runId |-> c.runId] :
      h \in {<<>>, HomeDir},
      c \in RunContexts \cup { [sessionKey |-> None, runId |-> "R1"],
                               [sessionKey |-> "S1", runId |-> None] } }

\* The path arguments of the modelled tool calls: none, inside home, outside.
CallPaths == { <<>>, <<"/", "h", "/", "h">>, <<"/">> }

\* The user changes the permission mode (the getter returns the new value).
SetMode(m) ==
  /\ m # mode
  /\ mode' = m
  /\ UNCHANGED <<approvalVars, calls, pureVars>>

ToolResult(kind, detail) == [kind |-> kind, detail |-> detail]

\* One finished invocation: tool.execute ran `execs` times.
Finished(execs, result) ==
  [pc |-> "done", req |-> 0, execs |-> execs, result |-> result]

\* The wrapper asks for approval in ask mode with a session key and a run id.
InteractiveWithoutRun(mBranch, ctx) ==
  mBranch = "ask" /\ ctx.sessionKey # None

InteractiveApproval(mBranch, ctx) ==
  mBranch = "ask" /\ ctx.sessionKey # None /\ ctx.runId # None

\* wrapToolWithPermissionCheck's execute, up to its first suspension point.
\* mCheck is the mode checkPermissionMode reads, mBranch the mode read after a
\* denial.
WrapperInvoke(tool, filePath, ctx, mCheck, mBranch) ==
  /\ Len(calls) < MaxCalls
  /\ LET check == CheckPermissionMode(tool.operation, filePath, mCheck, ctx.homeDir)
     IN IF check.allowed
          THEN /\ calls' = Append(calls, Finished(1, ToolResult("executed", <<>>)))
               /\ UNCHANGED approvalVars
        ELSE IF InteractiveApproval(mBranch, ctx)
          THEN /\ RegisterApproval(ctx.sessionKey, ctx.runId,
                    [kind |-> IF tool.name = "edit" THEN "edit" ELSE "write",
                     command |-> <<>>, filePath |-> filePath])
               /\ calls' = Append(calls, [pc |-> "awaiting", req |-> nextId,
                                          execs |-> 0, result |-> ToolResult("none", <<>>)])
        ELSE /\ calls' = Append(calls, Finished(0, ToolResult("error", check.reason)))
             /\ UNCHANGED approvalVars
  /\ UNCHANGED <<mode, pureVars>>

\* The preview of the ApprovalAction. The content argument is [isString,
\* length]; a preview is <<>> (undefined) or <<[kept, ellipsis]>>: how many
\* leading characters of the content it starts with and whether "..." follows.
PreviewLimit == 200
EllipsisLength == 3

BuildPreview(operation, content) ==
  IF operation = "write" /\ content.isString
    THEN IF content.length > PreviewLimit
           THEN <<[kept |-> PreviewLimit, ellipsis |-> TRUE]>>
           ELSE <<[kept |-> content.length, ellipsis |-> FALSE]>>
    ELSE <<>>

\* preview.length
PreviewLength(preview) == preview.kept + (IF preview.ellipsis THEN EllipsisLength ELSE 0)

\* What the wrapper returns once the awaited approval has settled.
ExecsAfterAnyDecision(outcome) ==
  IF outcome.state = "fulfilled" THEN 1 ELSE 0

ExecsAfterApproval(outcome) ==
  IF outcome.state = "fulfilled" /\ outcome.approved THEN 1 ELSE 0

ResultFailureAsDenial(outcome) ==
  IF outcome.state = "fulfilled" /\ outcome.approved
    THEN ToolResult("executed", <<>>)
    ELSE ToolResult("denied", <<>>)

ResultAfterApproval(outcome) ==
  IF outcome.state = "fulfilled"
    THEN IF outcome.approved THEN ToolResult("executed", <<>>)
         ELSE ToolResult("denied", <<>>)
    ELSE ToolResult("timeout", <<>>)

\* The continuation of `await requestApproval(...)`.
WrapperResume(c) ==
  /\ c \in 1..Len(calls)
  /\ calls[c].pc = "awaiting"
  /\ promise[calls[c].req].state # "pending"
  /\ LET outcome == promise[calls[c].req]
     IN calls' = [calls EXCEPT ![c] =
          [pc |-> "done", req |-> @.req,
           execs |-> @.execs + ExecsAfterApproval(outcome),
           result |-> ResultAfterApproval(outcome)]]
  /\ UNCHANGED <<approvalVars, mode, pureVars>>


\* ------------------------------------------------------- rate limiter

\* DEFAULT_RATE_LIMIT_CONFIG
DefaultConfig ==
  [connectionsPerMinute |-> 10, authFailuresBeforeLockout |-> 5,
   authLockoutWindowMinutes |-> 5, rpcCallsPerSecond |-> 100]

\* new RateLimiter(config): the state of a fresh limiter.
LimiterBuilt(cfg) ==
  /\ now = 0
  /\ ticks = 0
  /\ config = cfg
  /\ connectionsByIp = <<>>
  /\ authFailuresByIp = <<>>
  /\ rpcCallsByConnection = <<>>
  /\ removed = {}
  /\ admitted = [k \in LimiterKeys |-> <<>>]
  /\ lastCheck = <<>>
  /\ failureLog = [ip \in Ips |-> <<>>]
  /\ lastFailure = <<>>
  /\ cleared = {}
  /\ authResult = <<>>

\* The limiter of a run in which it is not exercised.
LimiterIdle == LimiterBuilt(DefaultConfig)

\* RateLimitResult; an absent retryAfterMs is 0.
RateAllowed == [allowed |-> TRUE, reason |-> "", retryAfterMs |-> 0]
RateDenied(reason, retryAfterMs) ==
  [allowed |-> FALSE, reason |-> reason, retryAfterMs |-> retryAfterMs]

\* Math.max(0, x)
AtLeastZero(x) == IF x > 0 THEN x ELSE 0

\* Math.min(a, b)
Min(a, b) == IF a < b THEN a ELSE b

\* timestamps.filter((ts) => ts > cutoff)
KeepAfter(timestamps, cutoff) == SelectSeq(timestamps, LAMBDA ts : ts > cutoff)

\* The entry of a key in a map, or the entry created for it.
EntryOf(map, key, fresh) == IF key \in DOMAIN map THEN map[key] ELSE fresh

\* map.set(key, entry)
WithEntry(map, key, entry) ==
  [k \in DOMAIN map \cup {key} |-> IF k = key THEN entry ELSE map[k]]

\* The body shared by checkConnection and checkRpcCall: the timestamps kept,
\* the result, and the timestamps stored.
WindowKept(map, key, windowMs) == KeepAfter(EntryOf(map, key, <<>>), now - windowMs)

RetryAfterFromNewest(kept, windowMs) ==
  AtLeastZero(kept[Len(kept)] + windowMs - now)

RetryAfterFromOldest(kept, windowMs) ==
  AtLeastZero((IF kept # <<>> THEN kept[1] ELSE now) + windowMs - now)

WindowResult(kept, windowMs, limit, reason) ==
  IF Len(kept) >= limit
    THEN RateDenied(reason, RetryAfterFromOldest(kept, windowMs))
    ELSE RateAllowed

WindowNotStored(kept, result) == kept

WindowStoredAlways(kept, result) == Append(kept, now)

WindowStored(kept, result) == IF result.allowed THEN Append(kept, now) ELSE kept

Recorded(key, result) ==
  /\ admitted' = [admitted EXCEPT ![key] = IF result.allowed THEN Append(@, now) ELSE @]
  /\ lastCheck' = WithEntry(lastCheck, key, [result |-> result, at |-> now])

\* checkConnection
ConnectionKept(ip) == WindowKept(connectionsByIp, ip, ConnectionWindowMs)

ConnectionResult(ip) ==
  WindowResult(ConnectionKept(ip), ConnectionWindowMs, config.connectionsPerMinute,
               "connection rate limit exceeded")

ConnectionsAfterCheck(ip) ==
  WithEntry(connectionsByIp, ip, WindowStored(ConnectionKept(ip), ConnectionResult(ip)))

CheckConnection(ip) ==
  /\ connectionsByIp' = ConnectionsAfterCheck(ip)
  /\ Recorded(ip, ConnectionResult(ip))
  /\ UNCHANGED <<now, ticks, config, authFailuresByIp, rpcCallsByConnection, removed,
                 failureLog, lastFailure, cleared, authResult>>
  /\ UNCHANGED <<approvalVars, wrapperVars, pmIn, pmOut, sockets, utilityVars>>

\* checkRpcCall, on a connection that has not been torn down.
RpcKept(connectionId) == WindowKept(rpcCallsByConnection, connectionId, RpcWindowMs)

RpcResult(connectionId) ==
  WindowResult(RpcKept(connectionId), RpcWindowMs, config.rpcCallsPerSecond,
               "RPC rate limit exceeded")

CheckRpcCall(connectionId) ==
  /\ connectionId \notin removed
  /\ rpcCallsByConnection' =
       WithEntry(rpcCallsByConnection, connectionId,
                 WindowStored(RpcKept(connectionId), RpcResult(connectionId)))
  /\ Recorded(connectionId, RpcResult(connectionId))
  /\ UNCHANGED <<now, ticks, config, connectionsByIp, authFailuresByIp, removed,
                 failureLog, lastFailure, cleared, authResult>>
  /\ UNCHANGED <<approvalVars, wrapperVars, pmIn, pmOut, sockets, utilityVars>>

\* this.rpcCallsByConnection.delete(connectionId)
RpcCallsAfterRemoveAll(connectionId) == <<>>

RpcCallsAfterRemove(connectionId) == Without(rpcCallsByConnection, {connectionId})

\* removeConnection, called once from the close handler of the connection.
RemoveConnection(connectionId) ==
  /\ connectionId \notin removed
  /\ removed' = removed \cup {connectionId}
  /\ rpcCallsByConnection' = RpcCallsAfterRemove(connectionId)
  /\ UNCHANGED <<now, ticks, config, connectionsByIp, authFailuresByIp, admitted,
                 lastCheck, failureLog, lastFailure, cleared, authResult>>
  /\ UNCHANGED <<approvalVars, wrapperVars, pmIn, pmOut, sockets, utilityVars>>

\* The authentication-failure record; a null lockoutUntil is 0 (both falsy).
FreshAuthEntry == [failures |-> <<>>, lockoutUntil |-> 0, backoffMultiplier |-> 1]

AuthWindowMs == config.authLockoutWindowMinutes * MsPerMinute

\* entry.lockoutUntil && now < entry.lockoutUntil
LockedOutInclusive(entry) == entry.lockoutUntil # 0 /\ now <= entry.lockoutUntil

LockedOut(entry) == entry.lockoutUntil # 0 /\ now < entry.lockoutUntil

\* checkAuthAttempt
AuthAttemptResult(ip) ==
  IF ip \in DOMAIN authFailuresByIp /\ LockedOut(authFailuresByIp[ip])
    THEN RateDenied("auth locked out due to repeated failures",
                    authFailuresByIp[ip].lockoutUntil - now)
    ELSE RateAllowed

CheckAuthAttempt(ip) ==
  /\ authResult' = <<[ip |-> ip, result |-> AuthAttemptResult(ip)]>>
  /\ UNCHANGED <<now, ticks, config, connectionsByIp, authFailuresByIp,
                 rpcCallsByConnection, removed, admitted, lastCheck, failureLog,
                 lastFailure, cleared>>
  /\ UNCHANGED <<approvalVars, wrapperVars, pmIn, pmOut, sockets, utilityVars>>

\* recordAuthFailure: the entry it leaves and the result it returns.
BackoffUncapped(k) == k * 2

BackoffKept(k) == k

NextBackoff(k) == Min(k * 2, MaxBackoff)

FailuresWithoutCurrent(entry) == KeepAfter(entry.failures, now - AuthWindowMs)

FailuresInWindow(entry) ==
  Append(KeepAfter(entry.failures, now - AuthWindowMs), now)

AuthEntryAlwaysAppends(entry) ==
  [failures |-> FailuresInWindow(entry),
   lockoutUntil |-> IF LockedOut(entry)
                      THEN now + AuthWindowMs * NextBackoff(entry.backoffMultiplier)
                    ELSE IF Len(FailuresInWindow(entry)) >= config.authFailuresBeforeLockout
                      THEN now + AuthWindowMs * entry.backoffMultiplier
                    ELSE entry.lockoutUntil,
   backoffMultiplier |-> IF LockedOut(entry) THEN NextBackoff(entry.backoffMultiplier)
                         ELSE entry.backoffMultiplier]

AuthEntryAfterFailure(entry) ==
  IF LockedOut(entry)
    THEN [failures |-> entry.failures,
          lockoutUntil |-> now + AuthWindowMs * NextBackoff(entry.backoffMultiplier),
          backoffMultiplier |-> NextBackoff(entry.backoffMultiplier)]
    ELSE LET failures == FailuresInWindow(entry)
         IN [failures |-> failures,
             lockoutUntil |-> IF Len(failures) >= config.authFailuresBeforeLockout
                                THEN now + AuthWindowMs * entry.backoffMultiplier
                                ELSE entry.lockoutUntil,
             backoffMultiplier |-> entry.backoffMultiplier]

AuthFailureResult(entry) ==
  IF LockedOut(entry)
    THEN RateDenied("auth locked out due to repeated failures",
                    AuthWindowMs * NextBackoff(entry.backoffMultiplier))
    ELSE IF Len(FailuresInWindow(entry)) >= config.authFailuresBeforeLockout
      THEN RateDenied("auth locked out after failures",
                      AuthWindowMs * entry.backoffMultiplier)
      ELSE RateAllowed

RecordAuthFailure(ip) ==
  /\ Len(failureLog[ip]) < MaxFailures
  /\ LET entry == EntryOf(authFailuresByIp, ip, FreshAuthEntry)
     IN /\ authFailuresByIp' = WithEntry(authFailuresByIp, ip, AuthEntryAfterFailure(entry))
        /\ lastFailure' = WithEntry(lastFailure, ip,
                                    [result |-> AuthFailureResult(entry), at |-> now])
  /\ failureLog' = [failureLog EXCEPT ![ip] = Append(@, now)]
  /\ cleared' = cleared \ {ip}
  /\ UNCHANGED <<now, ticks, config, connectionsByIp, rpcCallsByConnection, removed,
                 admitted, lastCheck, authResult>>
  /\ UNCHANGED <<approvalVars, wrapperVars, pmIn, pmOut, sockets, utilityVars>>

\* clearAuthFailures
AuthFailuresKept(ip) == authFailuresByIp

AuthFailuresAfterClear(ip) == Without(authFailuresByIp, {ip})

ClearAuthFailures(ip) ==
  /\ authFailuresByIp' = AuthFailuresAfterClear(ip)
  /\ failureLog' = [failureLog EXCEPT ![ip] = <<>>]
  /\ cleared' = cleared \cup {ip}
  /\ UNCHANGED <<now, ticks, config, connectionsByIp, rpcCallsByConnection, removed,
                 admitted, lastCheck, lastFailure, authResult>>
  /\ UNCHANGED <<approvalVars, wrapperVars, pmIn, pmOut, sockets, utilityVars>>

\* cleanup, the janitor started by start(): it may run at any instant.
NonEmptyEntries(map) == [k \in {j \in DOMAIN map : map[j] # <<>>} |-> map[k]]

AuthEntryBackoffReset(entry) ==
  [failures |-> KeepAfter(entry.failures, now - AuthWindowMs * MaxBackoff),
   lockoutUntil |-> IF entry.lockoutUntil # 0 /\ now >= entry.lockoutUntil
                      THEN 0 ELSE entry.lockoutUntil,
   backoffMultiplier |-> IF entry.lockoutUntil # 0 /\ now >= entry.lockoutUntil
                           THEN 1 ELSE entry.backoffMultiplier]

AuthEntryLockoutCleared(entry) ==
  [failures |-> KeepAfter(entry.failures, now - AuthWindowMs * MaxBackoff),
   lockoutUntil |-> 0,
   backoffMultiplier |-> entry.backoffMultiplier]

AuthEntryCleaned(entry) ==
  [failures |-> KeepAfter(entry.failures, now - AuthWindowMs * MaxBackoff),
   lockoutUntil |-> IF entry.lockoutUntil # 0 /\ now >= entry.lockoutUntil
                      THEN 0 ELSE entry.lockoutUntil,
   backoffMultiplier |-> entry.backoffMultiplier]

Cleanup ==
  /\ connectionsByIp' =
       NonEmptyEntries([ip \in DOMAIN connectionsByIp |->
                          KeepAfter(connectionsByIp[ip], now - ConnectionWindowMs)])
  /\ authFailuresByIp' =
       LET cleaned == [ip \in DOMAIN authFailuresByIp |->
                         AuthEntryCleaned(authFailuresByIp[ip])]
       IN [ip \in {k \in DOMAIN cleaned :
                     ~(cleaned[k].failures = <<>> /\ cleaned[k].lockoutUntil = 0)}
             |-> cleaned[ip]]
  /\ rpcCallsByConnection' =
       NonEmptyEntries([c \in DOMAIN rpcCallsByConnection |->
                          KeepAfter(rpcCallsByConnection[c],
                                    now - RpcWindowMs - RpcRetentionMs)])
  /\ UNCHANGED <<now, ticks, config, removed, admitted, lastCheck, failureLog,
                 lastFailure, cleared, authResult>>
  /\ UNCHANGED <<approvalVars, wrapperVars, pmIn, pmOut, sockets, utilityVars>>

\* Date.now() moves on by d milliseconds.
AdvanceClock(d) ==
  /\ ticks < MaxTicks
  /\ d > 0
  /\ now' = now + d
  /\ ticks' = ticks + 1
  /\ UNCHANGED <<config, connectionsByIp, authFailuresByIp, rpcCallsByConnection,
                 removed, admitted, lastCheck, failureLog, lastFailure, cleared,
                 authResult>>
  /\ UNCHANGED <<approvalVars, wrapperVars, pmIn, pmOut, sockets, utilityVars>>

\* ------------------------------------- WebSocket connection handler

\* The dot-separated labels of an address (remoteAddr.startsWith("127.") is a
\* test on the first label); the addresses "ip1" and "ip2" stand for peers
\* that are not loopback.
AddressLabels(addr) ==
  CASE addr = "127.0.0.1" -> <<"127", "0", "0", "1">>
    [] addr = "127.9.9.9" -> <<"127", "9", "9", "9">>
    [] addr = "::ffff:127.0.0.1" -> <<"::ffff:127", "0", "0", "1">>
    [] OTHER -> <<addr>>

\* The loopback test of validateWebSocketOrigin; an absent remoteAddr is None.
IsLoopbackPeer(remoteAddr) ==
  /\ remoteAddr # None
  /\ LET labels == AddressLabels(remoteAddr)
     IN \/ remoteAddr = "127.0.0.1"
        \/ remoteAddr = "::1"
        \/ Len(labels) >= 2 /\ labels[1] = "127"
        \/ Len(labels) >= 2 /\ labels[1] = "::ffff:127"

\* host.endsWith("." + domain), on labels: the domain's labels end the host
\* and at least one label comes before them.
EndsWithDomain(host, domain) ==
  /\ Len(host) > Len(domain)
  /\ SubSeq(host, Len(host) - Len(domain) + 1, Len(host)) = domain

OriginValid == [valid |-> TRUE, reason |-> ""]
OriginInvalid(reason) == [valid |-> FALSE, reason |-> reason]

\* new URL(origin).hostname, as labels: the host written in the origin, and
\* for an IPv6 literal, which an origin writes in brackets, the literal with
\* its brackets.
UrlHostname(origin) ==
  IF origin.ipv6 THEN <<"[" \o origin.host[1] \o "]">> ELSE origin.host

\* One entry of the allowlist against the origin: a literal match of the
\* origin or of its hostname, or a "*.domain" wildcard. An entry is its text
\* and the labels the text has between its dots.
AllowlistEntryMatches(origin, allowed) ==
  \/ origin.text = allowed.text
  \/ UrlHostname(origin) = allowed.labels
  \/ /\ Len(allowed.labels) >= 2
     /\ allowed.labels[1] = "*"
     /\ \/ UrlHostname(origin) = Tail(allowed.labels)
        \/ EndsWithDomain(UrlHostname(origin), Tail(allowed.labels))

\* validateWebSocketOrigin. An Origin header is <<>> when absent, else
\* <<[text, wellFormed, host, ipv6]>>: its text, whether new URL(text) parses,
\* the labels of the host written in it and whether that host is an IPv6
\* literal. The allowlist is <<>> when the parameter is missing, else
\* <<entries>>.
ValidateWebSocketOrigin(origin, remoteAddr, allowedOrigins) ==
  IF IsLoopbackPeer(remoteAddr) THEN OriginValid
  ELSE IF origin = <<>> THEN OriginValid
  ELSE IF ~origin[1].wellFormed THEN OriginInvalid("invalid_origin_format")
  ELSE IF UrlHostname(origin[1]) \in {<<"localhost">>, <<"127", "0", "0", "1">>, <<"::1">>}
    THEN OriginValid
  ELSE IF EndsWithDomain(UrlHostname(origin[1]), <<"ts", "net">>) THEN OriginValid
  ELSE IF allowedOrigins = <<>> \/ allowedOrigins[1] = <<>>
    THEN OriginInvalid("origin_not_in_allowlist")
  ELSE IF \E i \in 1..Len(allowedOrigins[1]) :
            AllowlistEntryMatches(origin[1], allowedOrigins[1][i])
    THEN OriginValid
  ELSE OriginInvalid("origin_not_allowed")

\* forwardedFor?.split(",")[0]?.trim() || remoteAddr || "unknown"; the header
\* is the sequence of its trimmed, comma-separated parts, <<>> when absent.
ClientIp(forwardedFor, remoteAddr) ==
  IF forwardedFor # <<>> /\ forwardedFor[1] # "" THEN forwardedFor[1]
  ELSE IF remoteAddr # None THEN remoteAddr
  ELSE "unknown"

\* The connection id of the i-th upgrade (randomUUID).
ConnIdOf(i) == "conn" \o ToString(i)

\* socket.close(1008, ...) before anything else was done on the connection.
PolicyViolation == 1008
NormalClosure == 1000

\* A connection: the checks the handler ran on it, in order, each with its
\* outcome; whether close() has run; the code and reason given to socket.close
\* (0 while open); the events sent; whether the handshake timer is armed; and
\* the handlers attached.
Check(name, passed) == [check |-> name, passed |-> passed]

RejectedSocket(checks, reason) ==
  [checks |-> checks, closed |-> FALSE, closeCode |-> PolicyViolation,
   closeReason |-> reason, sent |-> <<>>, handshakeTimer |-> FALSE, handlers |-> {}]

ChallengedSocket(checks) ==
  [checks |-> checks, closed |-> FALSE, closeCode |-> 0, closeReason |-> "",
   sent |-> <<"connect.challenge">>, handshakeTimer |-> TRUE,
   handlers |-> {"error", "close", "message"}]

SocketWithoutOriginReturn(connectionCheck, originCheck) ==
  IF ~connectionCheck.allowed
    THEN RejectedSocket(<<Check("rate", FALSE)>>, connectionCheck.reason)
  ELSE ChallengedSocket(<<Check("rate", TRUE), Check("origin", originCheck.valid)>>)

\* The connection the handler leaves: it returns after the rate-limit check
\* when that fails, before the origin check is made, and after the origin check
\* when that fails.
SocketAfterChecks(connectionCheck, originCheck) ==
  IF ~connectionCheck.allowed
    THEN RejectedSocket(<<Check("rate", FALSE)>>, connectionCheck.reason)
  ELSE IF ~originCheck.valid
    THEN RejectedSocket(<<Check("rate", TRUE), Check("origin", FALSE)>>, originCheck.reason)
  ELSE ChallengedSocket(<<Check("rate", TRUE), Check("origin", TRUE)>>)

\* wss.on("connection"): the whole handler, which runs without suspending.
Upgrade(remoteAddr, forwardedFor, origin) ==
  /\ Len(sockets) < MaxUpgrades
  /\ LET clientIp == ClientIp(forwardedFor, remoteAddr)
         connectionCheck == ConnectionResult(clientIp)
         originCheck == ValidateWebSocketOrigin(origin, remoteAddr, << <<>> >>)
     IN /\ connectionsByIp' = ConnectionsAfterCheck(clientIp)
        /\ Recorded(clientIp, connectionCheck)
        /\ sockets' = Append(sockets, SocketAfterChecks(connectionCheck, originCheck))
  /\ UNCHANGED <<now, ticks, config, authFailuresByIp, rpcCallsByConnection, removed,
                 failureLog, lastFailure, cleared, authResult>>
  /\ UNCHANGED <<approvalVars, wrapperVars, pmIn, pmOut, utilityVars>>

\* close(code = 1000) of the handler: it acts once, clears the handshake timer
\* and closes the socket.
SocketAfterClose(socket) ==
  IF socket.closed THEN socket
  ELSE [socket EXCEPT !.closed = TRUE, !.handshakeTimer = FALSE,
                      !.closeCode = IF @ = 0 THEN NormalClosure ELSE @]

\* The handshake timer fires before any client has connected.
HandshakeTimeout(i) ==
  /\ i \in 1..Len(sockets)
  /\ sockets[i].handshakeTimer
  /\ sockets' = [sockets EXCEPT ![i] = SocketAfterClose([@ EXCEPT !.handshakeTimer = FALSE])]
  /\ UNCHANGED <<approvalVars, wrapperVars, pmIn, pmOut, limiterVars, utilityVars>>

\* The socket's "close" event: the handler registered with once() removes the
\* connection from the limiter and calls close().
SocketClosed(i) ==
  /\ i \in 1..Len(sockets)
  /\ "close" \in sockets[i].handlers
  /\ sockets' = [sockets EXCEPT ![i] =
                   SocketAfterClose([@ EXCEPT !.handlers = @ \ {"close"}])]
  /\ rpcCallsByConnection' = RpcCallsAfterRemove(ConnIdOf(i))
  /\ removed' = removed \cup {ConnIdOf(i)}
  /\ UNCHANGED <<now, ticks, config, connectionsByIp, authFailuresByIp, admitted,
                 lastCheck, failureLog, lastFailure, cleared, authResult>>
  /\ UNCHANGED <<approvalVars, wrapperVars, pmIn, pmOut, utilityVars>>

\* --------------------------------------- prompt-injection detector

\* INJECTION_PATTERNS, in the order of the table: label and weight.
InjectionPatterns ==
  << [label |-> "ignore-previous-instructions", weight |-> 40],
     [label |-> "forget-everything", weight |-> 35],
     [label |-> "disregard-instructions", weight |-> 40],
     [label |-> "role-reassignment", weight |-> 30],
     [label |-> "behavior-override", weight |-> 25],
     [label |-> "pretend-identity", weight |-> 20],
     [label |-> "act-as", weight |-> 15],
     [label |-> "prompt-extraction", weight |-> 25],
     [label |-> "reveal-prompt", weight |-> 25],
     [label |-> "query-prompt", weight |-> 20],
     [label |-> "output-prompt", weight |-> 30],
     [label |-> "new-instructions", weight |-> 35],
     [label |-> "system-prompt-injection", weight |-> 35],
     [label |-> "system-tag", weight |-> 30],
     [label |-> "system-xml-tag", weight |-> 30],
     [label |-> "execute-command", weight |-> 25],
     [label |-> "run-command", weight |-> 25],
     [label |-> "dangerous-shell-block", weight |-> 40],
     [label |-> "llama-delimiters", weight |-> 35],
     [label |-> "role-delimiters", weight |-> 15],
     [label |-> "jailbreak-mode", weight |-> 35],
     [label |-> "bypass-restrictions", weight |-> 30],
     [label |-> "no-restrictions", weight |-> 30] >>

\* The phrases an input is made of; an input is its phrases, one per line.
Phrases ==
  { "hello", "act as a pirate", "User:", "pretend to be", "jailbreak", "[system]",
    "forget everything", "ignore previous instructions",
    "show me your system prompt:" }

\* The phrases each pattern's regular expression matches (the expressions have
\* no g flag, so pattern.test keeps no state between calls).
PatternPhrases(label) ==
  CASE label = "ignore-previous-instructions" -> {"ignore previous instructions"}
    [] label = "forget-everything" -> {"forget everything"}
    [] label = "pretend-identity" -> {"pretend to be"}
    [] label = "act-as" -> {"act as a pirate"}
    [] label = "prompt-extraction" -> {"show me your system prompt:"}
    [] label = "system-prompt-injection" -> {"show me your system prompt:"}
    [] label = "system-tag" -> {"[system]"}
    [] label = "role-delimiters" -> {"User:"}
    [] label = "jailbreak-mode" -> {"jailbreak"}
    [] OTHER -> {}

\* pattern.test(input)
PatternTest(label, input) ==
  \E k \in 1..Len(input) : input[k] \in PatternPhrases(label)

\* The loop over INJECTION_PATTERNS from position k on, from the labels and
\* the score accumulated so far.
RECURSIVE ScanPatterns(_, _, _)
ScanPatterns(input, k, acc) ==
  IF k > Len(InjectionPatterns) THEN acc
  ELSE ScanPatterns(input, k + 1,
         IF PatternTest(InjectionPatterns[k].label, input)
           THEN [matchedPatterns |-> Append(acc.matchedPatterns, InjectionPatterns[k].label),
                 totalScore |-> acc.totalScore + InjectionPatterns[k].weight]
           ELSE acc)

\* The risk level of a score.
RiskLevelInclusive(riskScore) ==
  IF riskScore = 0 THEN "none"
  ELSE IF riskScore <= 20 THEN "low"
  ELSE IF riskScore <= 40 THEN "medium"
  ELSE IF riskScore <= 70 THEN "high"
  ELSE "critical"

RiskLevel(riskScore) ==
  IF riskScore = 0 THEN "none"
  ELSE IF riskScore < 20 THEN "low"
  ELSE IF riskScore < 40 THEN "medium"
  ELSE IF riskScore < 70 THEN "high"
  ELSE "critical"

\* detectPromptInjection. An input is [isString, phrases]; the empty string has
\* no phrases. The warning is <<>> when undefined, else the list of matched
\* patterns its text names.
DetectPromptInjection(input) ==
  IF ~input.isString \/ input.phrases = <<>>
    THEN [riskLevel |-> "none", riskScore |-> 0, matchedPatterns |-> <<>>,
          warning |-> <<>>]
  ELSE LET scan == ScanPatterns(input.phrases, 1,
                                [matchedPatterns |-> <<>>, totalScore |-> 0])
           riskScore == Min(100, scan.totalScore)
           riskLevel == RiskLevel(riskScore)
       IN [riskLevel |-> riskLevel, riskScore |-> riskScore,
           matchedPatterns |-> scan.matchedPatterns,
           warning |-> IF riskLevel \in {"high", "critical"}
                         THEN <<scan.matchedPatterns>> ELSE <<>>]

\* ------------------------------------- session transcript encryption

\* KEY_LENGTH, IV_LENGTH and AUTH_TAG_LENGTH, in bytes.
KeyLength == 32
IvLength == 16
AuthTagLength == 16

\* A UTF-16 code unit that is an unpaired surrogate, and U+FFFD.
LoneSurrogate == "\\uD800"
ReplacementChar == "\\uFFFD"

\* Strings. A string is [prefixed, text, bodyLength, key, iv, plain]: whether it
\* starts with ENCRYPTED_PREFIX "enc:v1:"; for a string without the prefix its
\* characters; for one with the prefix the number of bytes its base64 body
\* decodes to, and, when that body is iv + authTag + ciphertext as made by
\* AES-256-GCM, the key and iv it was made with and <<the string the ciphertext
\* decrypts to>> (key 0 and plain <<>> for a body no key authenticates).
PlainString(text) ==
  [prefixed |-> FALSE, text |-> text, bodyLength |-> 0, key |-> 0, iv |-> 0, plain |-> <<>>]

MalformedString(bodyLength) ==
  [prefixed |-> TRUE, text |-> <<>>, bodyLength |-> bodyLength, key |-> 0, iv |-> 0,
   plain |-> <<>>]

\* The string that Buffer's UTF-8 encoding of s decodes to: an unpaired
\* surrogate is encoded as U+FFFD.
Utf8(s) ==
  [s EXCEPT !.text = [k \in 1..Len(s.text) |->
                        IF s.text[k] = LoneSurrogate THEN ReplacementChar ELSE s.text[k]]]

\* The length in bytes of what a string encodes to (a character other than
\* "a" takes three bytes; a prefixed string is ASCII).
RECURSIVE ByteLength(_)
ByteLength(s) ==
  IF s.prefixed THEN 7 + 4 * ((s.bodyLength + 2) \div 3)
  ELSE IF s.text = <<>> THEN 0
  ELSE (IF Head(s.text) = "a" THEN 1 ELSE 3) + ByteLength([s EXCEPT !.text = Tail(@)])

\* ENCRYPTED_PREFIX + base64(iv + authTag + encrypted)
Envelope(key, iv, plaintext) ==
  [prefixed |-> TRUE, text |-> <<>>,
   bodyLength |-> IvLength + AuthTagLength + ByteLength(plaintext),
   key |-> key, iv |-> iv, plain |-> <<Utf8(plaintext)>>]

\* isSessionEncryptionEnabled: the variable trimmed and lower-cased is none of
\* "off", "false", "0".
EnvValues == {None, " OFF ", "no"}

IsSessionEncryptionEnabled == sessionEncryption \notin {"off", " OFF ", "false", "0"}

\* crypto.randomBytes(KEY_LENGTH): the key this process generates, other than
\* the key a file found at start holds and than the key of another machine.
FoundKey == 1
NewKey == 2
ForeignKey == 3

\* getOrCreateKey: the key of a key file of KEY_LENGTH bytes, else a new key,
\* written to the file; mkdirSync / writeFileSync throw when the file cannot be
\* created. The result is [threw, key, keyFile].
GetOrCreateKey ==
  IF keyFile # <<>> /\ keyFile[1].length = KeyLength
    THEN [threw |-> FALSE, key |-> keyFile[1].key, keyFile |-> keyFile]
  ELSE IF stateDirWritable
    THEN [threw |-> FALSE, key |-> NewKey,
          keyFile |-> <<[length |-> KeyLength, key |-> NewKey]>>]
  ELSE [threw |-> TRUE, key |-> 0, keyFile |-> keyFile]

\* A call's result: whether it raised, and the string returned.
Returned(value) == [threw |-> FALSE, value |-> value]
Raised == [threw |-> TRUE, value |-> PlainString(<<>>)]

\* encryptSessionData(plaintext), with iv the bytes crypto.randomBytes returns.
EncryptToggleIgnored(plaintext, iv) ==
  IF GetOrCreateKey.threw THEN Returned(plaintext)
  ELSE Returned(Envelope(GetOrCreateKey.key, iv, plaintext))

EncryptSessionData(plaintext, iv) ==
  IF ~IsSessionEncryptionEnabled THEN Returned(plaintext)
  ELSE IF GetOrCreateKey.threw THEN Returned(plaintext)
  ELSE Returned(Envelope(GetOrCreateKey.key, iv, plaintext))

\* decryptSessionData(data): decipher.final() throws unless the auth tag is the
\* one made with this key.
DecryptUncaught(data) ==
  IF ~data.prefixed THEN Returned(data)
  ELSE IF GetOrCreateKey.threw THEN Raised
  ELSE IF data.bodyLength < IvLength + AuthTagLength THEN Returned(data)
  ELSE IF data.plain = <<>> \/ data.key # GetOrCreateKey.key THEN Raised
  ELSE Returned(data.plain[1])

DecryptSessionData(data) ==
  IF ~data.prefixed THEN Returned(data)
  ELSE IF GetOrCreateKey.threw THEN Returned(data)
  ELSE IF data.bodyLength < IvLength + AuthTagLength THEN Returned(data)
  ELSE IF data.plain = <<>> \/ data.key # GetOrCreateKey.key THEN Returned(data)
  ELSE Returned(data.plain[1])

\* The key file after a call that reached getOrCreateKey.
KeyFileAfter(reached) == IF reached THEN GetOrCreateKey.keyFile ELSE keyFile

CryptoIdle ==
  /\ sessionEncryption = None
  /\ keyFile = <<>>
  /\ stateDirWritable = TRUE
  /\ cryptoCalls = 0
  /\ lastCall = <<>>
  /\ sealed = <<>>

\* The record of a call in the history.
CallRecord(op, input, result) ==
  [op |-> op, input |-> input, result |-> result,
   enabled |-> IsSessionEncryptionEnabled, keyAccess |-> ~GetOrCreateKey.threw]

\* A call of encryptSessionData.
Encrypt(plaintext) ==
  /\ cryptoCalls < MaxCryptoCalls
  /\ cryptoCalls' = cryptoCalls + 1
  /\ LET call == CallRecord("encrypt", plaintext,
                            EncryptSessionData(plaintext, cryptoCalls + 1))
     IN /\ lastCall' = <<call>>
        /\ sealed' = Append(sealed, call)
  /\ keyFile' = KeyFileAfter(IsSessionEncryptionEnabled)
  /\ UNCHANGED <<sessionEncryption, stateDirWritable>>
  /\ UNCHANGED <<approvalVars, wrapperVars, pmIn, pmOut, limiterVars, sockets, fnIn,
                 fnOut, responses>>

\* A call of decryptSessionData.
Decrypt(data) ==
  /\ cryptoCalls < MaxCryptoCalls
  /\ cryptoCalls' = cryptoCalls + 1
  /\ lastCall' = <<CallRecord("decrypt", data, DecryptSessionData(data))>>
  /\ keyFile' = KeyFileAfter(data.prefixed)
  /\ UNCHANGED <<sessionEncryption, stateDirWritable, sealed>>
  /\ UNCHANGED <<approvalVars, wrapperVars, pmIn, pmOut, limiterVars, sockets, fnIn,
                 fnOut, responses>>

\* The environment variable is set to another value.
SetSessionEncryption(value) ==
  /\ sessionEncryption # value
  /\ sessionEncryption' = value
  /\ UNCHANGED <<keyFile, stateDirWritable, cryptoCalls, lastCall, sealed>>
  /\ UNCHANGED <<approvalVars, wrapperVars, pmIn, pmOut, limiterVars, sockets, fnIn,
                 fnOut, responses>>

\* ------------------------------------------------------- sandbox paths

\* File paths here are [anchor, segments]: anchor "/" for an absolute path, "~"
\* for "~" and "~/...", "" for a relative one, and the segments that "/"
\* separates after it, as written (".." included).
PathOf(anchor, segments) == [anchor |-> anchor, segments |-> segments]

\* A subset of SENSITIVE_PATH_PATTERNS, /\.ssh\//i, /\.docker\/config\.json/i and
\* /\.env$/i: the consecutive segments a pattern spells, whether a "/" must
\* follow them and whether they must end the path.
SensitivePathPatterns ==
  { [names |-> <<".ssh">>, slashAfter |-> TRUE, atEnd |-> FALSE],
    [names |-> <<".docker", "config.json">>, slashAfter |-> FALSE, atEnd |-> FALSE],
    [names |-> <<".env">>, slashAfter |-> FALSE, atEnd |-> TRUE] }

\* filePath.toLowerCase(), segment by segment.
ToLowerCase(segments) ==
  [k \in 1..Len(segments) |-> IF segments[k] = ".ENV" THEN ".env" ELSE segments[k]]

\* pattern.test(normalized)
SensitivePatternTest(pattern, segments) ==
  \E i \in 1..Len(segments) :
    LET last == i + Len(pattern.names) - 1
    IN /\ last <= Len(segments)
       /\ \A k \in 1..Len(pattern.names) : segments[i + k - 1] = pattern.names[k]
       /\ pattern.slashAfter => last < Len(segments)
       /\ pattern.atEnd => last = Len(segments)

\* isSensitivePath(filePath)
IsSensitivePath(filePath) ==
  \E pattern \in SensitivePathPatterns :
    SensitivePatternTest(pattern, ToLowerCase(filePath.segments))

\* os.homedir()
HomeSegments == <<"h">>

\* expandPath(filePath): "~" and "~/..." become the home directory followed by
\* the rest, as written.
ExpandPath(filePath) ==
  IF filePath.anchor = "~" THEN PathOf("/", HomeSegments \o filePath.segments)
  ELSE filePath

\* path.resolve and path.relative normalize: "." and empty segments are
\* dropped and ".." removes the segment before it.
RECURSIVE NormalizeSegments(_, _)
NormalizeSegments(segments, stack) ==
  IF segments = <<>> THEN stack
  ELSE IF Head(segments) = ".."
    THEN NormalizeSegments(Tail(segments),
                           IF stack = <<>> THEN <<>> ELSE SubSeq(stack, 1, Len(stack) - 1))
  ELSE NormalizeSegments(Tail(segments), Append(stack, Head(segments)))

\* path.resolve(cwd, expanded)
PathResolve(cwd, expanded) ==
  PathOf("/", NormalizeSegments((IF expanded.anchor = "/" THEN <<>> ELSE cwd)
                                  \o expanded.segments, <<>>))

\* resolveToCwd(filePath, cwd): an absolute path is returned as written.
ResolveToCwd(filePath, cwd) ==
  IF ExpandPath(filePath).anchor = "/" THEN ExpandPath(filePath)
  ELSE PathResolve(cwd, ExpandPath(filePath))

\* The number of leading segments two paths share.
RECURSIVE CommonPrefixLength(_, _)
CommonPrefixLength(a, b) ==
  IF a = <<>> \/ b = <<>> \/ Head(a) # Head(b) THEN 0
  ELSE 1 + CommonPrefixLength(Tail(a), Tail(b))

\* path.relative(from, to), both absolute: ".." for each segment of from after
\* the shared ones, then the rest of to.
PathRelative(from, to) ==
  LET f == NormalizeSegments(from, <<>>)
      t == NormalizeSegments(to, <<>>)
      shared == CommonPrefixLength(f, t)
  IN [k \in 1..(Len(f) - shared) |-> ".."] \o SubSeq(t, shared + 1, Len(t))

SensitiveFileError == "Access denied: Cannot read sensitive file"
EscapesRootError == "Path escapes sandbox root"

\* What resolveSandboxPath throws.
SandboxError(message) == [error |-> message, resolved |-> <<>>, relative |-> <<>>]

\* resolveSandboxPath(params): [error, resolved, relative].
ResolveSandboxPath(params) ==
  LET resolved == ResolveToCwd(params.filePath, params.cwd)
      relative == PathRelative(params.root, resolved.segments)
  IN IF IsSensitivePath(resolved) THEN SandboxError(SensitiveFileError)
     ELSE IF relative = <<>>
       THEN [error |-> None, resolved |-> resolved.segments, relative |-> <<>>]
     ELSE IF Head(relative) = ".." THEN SandboxError(EscapesRootError)
     ELSE [error |-> None, resolved |-> resolved.segments, relative |-> relative]

\* ----------------------------------------------------- specification

\* The action of the approvals requested by callers other than the wrapper.
DirectActions ==
  { [kind |-> "exec", command |-> <<" ", "l", "s", " ", "-", "l">>, filePath |-> <<>>] }

ApprovalInit ==
  /\ pendingApprovals = <<>>
  /\ timers = {}
  /\ promise = <<>>
  /\ settleCalls = <<>>
  /\ nextId = 1
  /\ events = <<>>
  /\ lastResult = None

UtilityIdle ==
  /\ fnIn = None
  /\ fnOut = <<>>
  /\ responses = [client \in Clients |-> <<>>]
  /\ CryptoIdle

PureIdle ==
  /\ pmIn = None
  /\ pmOut = <<>>
  /\ LimiterIdle
  /\ sockets = <<>>
  /\ UtilityIdle

\* The approval coordinator, driven by its callers: requests, client decisions,
\* timers and cancellations in any order.
Init ==
  /\ ApprovalInit
  /\ eventEmitter = FALSE
  /\ mode = None
  /\ calls = <<>>
  /\ PureIdle

CoordinatorNext ==
  \/ \E id \in RequestIds, d \in Decisions : ResolveApproval(id, d)
  \/ \E id \in RequestIds : TimerFire(id)
  \/ \E s \in Sessions : CancelApprovalsForSession(s)
  \/ \E r \in Runs : CancelApprovalsForRun(r)

Next ==
  \/ SetApprovalEventEmitter
  \/ \E c \in RunContexts, a \in DirectActions : RequestApproval(c.sessionKey, c.runId, a)
  \/ CoordinatorNext

Spec == Init /\ [][Next]_vars

\* The wrapped tools over the coordinator: every approval is requested by a
\* wrapped tool; no emitter is installed (eventEmitter is null at module load).
WrapperInit ==
  /\ ApprovalInit
  /\ eventEmitter = FALSE
  /\ mode = None
  /\ calls = <<>>
  /\ PureIdle

WrapperNext ==
  \/ \E m \in ModeValues : SetMode(m)
  \/ \E tool \in WrappedTools, p \in CallPaths, ctx \in WrapContexts :
       WrapperInvoke(tool, p, ctx, ResolveMode, ResolveMode)
  \/ \E c \in 1..MaxCalls : WrapperResume(c)
  \/ CoordinatorNext

WrapperSpec == WrapperInit /\ [][WrapperNext]_vars

\* The wrapped tools under a mode getter whose value changes while the wrapper
\* runs: the read inside checkPermissionMode and the read after a denial return
\* any two values.
GetterNext ==
  \/ \E tool \in WrappedTools, p \in CallPaths, ctx \in WrapContexts,
        mCheck \in ModeValues, mBranch \in ModeValues :
       WrapperInvoke(tool, p, ctx, mCheck, mBranch)
  \/ \E c \in 1..MaxCalls : WrapperResume(c)
  \/ \E id \in RequestIds, d \in Decisions : ResolveApproval(id, d)
  \/ \E id \in RequestIds : TimerFire(id)

GetterSpec == WrapperInit /\ [][GetterNext]_vars

\* checkPermissionMode as a pure function: the inputs are drawn in the initial
\* state, the one action applies it.
HomeDirs == { <<>>, HomeDir, <<"~">> }

\* Absolute paths and tilde paths ("~", "~/..."), and the absent path.
PathInputs ==
  {<<>>} \cup
  { p \in SeqsUpTo(PathChars, MaxPathLen) :
      /\ p # <<>>
      /\ \/ Head(p) = "/"
         \/ p = <<"~">>
         \/ StartsWith(p, <<"~", "/">>) }

PermInit ==
  /\ ApprovalInit
  /\ eventEmitter = FALSE
  /\ calls = <<>>
  /\ mode \in ModeValues
  /\ pmIn \in [operation : Operations, filePath : PathInputs, homeDir : HomeDirs]
  /\ pmOut = <<>>
  /\ LimiterIdle
  /\ sockets = <<>>
  /\ UtilityIdle

PermCheck ==
  /\ pmOut = <<>>
  /\ pmOut' = <<CheckPermissionMode(pmIn.operation, pmIn.filePath, ResolveMode,
                                    pmIn.homeDir)>>
  /\ UNCHANGED <<approvalVars, mode, calls, pmIn, limiterVars, sockets, utilityVars>>

PermNext == PermCheck

PermSpec == PermInit /\ [][PermNext]_vars

\* The scheduling of the runtime: an armed timer fires, and the continuation
\* of a settled await runs.
Fairness ==
  /\ \A id \in RequestIds : WF_vars(TimerFire(id))
  /\ \A c \in 1..MaxCalls : WF_vars(WrapperResume(c))

\* The wrapped tools in ask mode, the mode in which approvals are requested,
\* under that scheduling.
AskInit ==
  /\ ApprovalInit
  /\ eventEmitter = FALSE
  /\ mode = "ask"
  /\ calls = <<>>
  /\ PureIdle

AskNext ==
  \/ \E tool \in WrappedTools, p \in CallPaths, ctx \in WrapContexts :
       WrapperInvoke(tool, p, ctx, ResolveMode, ResolveMode)
  \/ \E c \in 1..MaxCalls : WrapperResume(c)
  \/ CoordinatorNext

FairAskSpec == AskInit /\ [][AskNext]_vars /\ Fairness

\* The wrapped tools in one of the two modes that deny, once the gateway has
\* installed its event emitter; no client answers, so requests time out.
EmitterInit ==
  /\ ApprovalInit
  /\ eventEmitter = TRUE
  /\ mode \in {"plan", "ask"}
  /\ calls = <<>>
  /\ PureIdle

EmitterNext ==
  \/ \E tool \in WrappedTools, p \in CallPaths, ctx \in WrapContexts :
       WrapperInvoke(tool, p, ctx, ResolveMode, ResolveMode)
  \/ \E c \in 1..MaxCalls : WrapperResume(c)
  \/ \E id \in RequestIds : TimerFire(id)

EmitterSpec == EmitterInit /\ [][EmitterNext]_vars

\* The rate limiter's connection and RPC windows, built with limits drawn from
\* 1..MaxLimit; the clock moves by one millisecond or to one millisecond before
\* the end of a window.
WindowInit ==
  /\ ApprovalInit
  /\ eventEmitter = FALSE
  /\ mode = None
  /\ calls = <<>>
  /\ pmIn = None
  /\ pmOut = <<>>
  /\ sockets = <<>>
  /\ UtilityIdle
  /\ \E limit \in 1..MaxLimit :
       LimiterBuilt([DefaultConfig EXCEPT !.connectionsPerMinute = limit,
                                          !.rpcCallsPerSecond = limit])

WindowClockSteps == {1, RpcWindowMs - 1, ConnectionWindowMs - 1}

WindowNext ==
  \/ \E d \in WindowClockSteps : AdvanceClock(d)
  \/ \E ip \in TrackedIps : CheckConnection(ip)
  \/ \E c \in ConnIds : CheckRpcCall(c)
  \/ \E c \in ConnIds : RemoveConnection(c)
  \/ Cleanup

WindowSpec == WindowInit /\ [][WindowNext]_vars

\* The rate limiter's authentication lockout for one IP, built with a
\* threshold drawn from 1..MaxLimit and a one-minute window; the clock moves by
\* one millisecond, to one millisecond before the end of the failure window, or
\* to one millisecond before the end of the lockout.

AuthInit ==
  /\ ApprovalInit
  /\ eventEmitter = FALSE
  /\ mode = None
  /\ calls = <<>>
  /\ pmIn = None
  /\ pmOut = <<>>
  /\ sockets = <<>>
  /\ UtilityIdle
  /\ \E limit \in 1..MaxLimit :
       LimiterBuilt([DefaultConfig EXCEPT !.authFailuresBeforeLockout = limit,
                                          !.authLockoutWindowMinutes = 1])

AuthClockSteps ==
  {1, AuthWindowMs - 1} \cup
  { authFailuresByIp[ip].lockoutUntil - now - 1 :
      ip \in {k \in DOMAIN authFailuresByIp : authFailuresByIp[k].lockoutUntil > now + 1} }

AuthNext ==
  \/ \E d \in AuthClockSteps : AdvanceClock(d)
  \/ \E ip \in TrackedIps : CheckAuthAttempt(ip)
  \/ \E ip \in TrackedIps : RecordAuthFailure(ip)
  \/ \E ip \in TrackedIps : ClearAuthFailures(ip)
  \/ Cleanup

AuthSpec == AuthInit /\ [][AuthNext]_vars

\* The limiter's connection and RPC windows for two IPs and two connections
\* under limits of one; the clock moves by one millisecond less than the RPC
\* window.
PeerConns == {"conn1", "conn2"}

PeersInit ==
  /\ ApprovalInit
  /\ eventEmitter = FALSE
  /\ mode = None
  /\ calls = <<>>
  /\ pmIn = None
  /\ pmOut = <<>>
  /\ sockets = <<>>
  /\ UtilityIdle
  /\ LimiterBuilt([DefaultConfig EXCEPT !.connectionsPerMinute = 1,
                                        !.rpcCallsPerSecond = 1])

PeersNext ==
  \/ AdvanceClock(RpcWindowMs - 1)
  \/ \E ip \in Ips : CheckConnection(ip)
  \/ \E c \in PeerConns : CheckRpcCall(c)

PeersSpec == PeersInit /\ [][PeersNext]_vars

\* The limiter with its janitor: connections, RPC calls and authentication
\* failures of one peer under limits of one, the janitor running at any
\* instant; the clock moves to the last millisecond of the connection window,
\* past the janitor's RPC horizon, or past its horizon for authentication
\* failures.
JanitorInit ==
  /\ ApprovalInit
  /\ eventEmitter = FALSE
  /\ mode = None
  /\ calls = <<>>
  /\ pmIn = None
  /\ pmOut = <<>>
  /\ sockets = <<>>
  /\ UtilityIdle
  /\ LimiterBuilt([connectionsPerMinute |-> 1, authFailuresBeforeLockout |-> 1,
                   authLockoutWindowMinutes |-> 1, rpcCallsPerSecond |-> 1])

JanitorClockSteps ==
  {ConnectionWindowMs - 1, RpcWindowMs + RpcRetentionMs, AuthWindowMs * MaxBackoff}

JanitorNext ==
  \/ \E d \in JanitorClockSteps : AdvanceClock(d)
  \/ \E ip \in TrackedIps : Len(admitted[ip]) < MaxJanitorOps /\ CheckConnection(ip)
  \/ \E c \in ConnIds : Len(admitted[c]) < MaxJanitorOps /\ CheckRpcCall(c)
  \/ \E ip \in TrackedIps : Len(failureLog[ip]) < MaxJanitorOps /\ RecordAuthFailure(ip)
  \/ Cleanup

JanitorSpec == JanitorInit /\ [][JanitorNext]_vars

\* The gateway's connection handler over the rate limiter: upgrades from
\* loopback and remote peers, directly or through a proxy, with and without an
\* Origin header.
RemoteAddrs == {None, "127.0.0.1", "ip1"}

ForwardedFors == {<<>>, <<"ip2", "ip1">>, <<"", "ip2">>}

OriginHeaders ==
  { <<>>,
    <<[text |-> "not a url", wellFormed |-> FALSE, host |-> <<>>, ipv6 |-> FALSE]>>,
    <<[text |-> "https://node.ts.net", wellFormed |-> TRUE, host |-> <<"node", "ts", "net">>,
      ipv6 |-> FALSE]>>,
    <<[text |-> "https://evil.example", wellFormed |-> TRUE, host |-> <<"evil", "example">>,
      ipv6 |-> FALSE]>> }

GatewayInit ==
  /\ ApprovalInit
  /\ eventEmitter = FALSE
  /\ mode = None
  /\ calls = <<>>
  /\ pmIn = None
  /\ pmOut = <<>>
  /\ sockets = <<>>
  /\ UtilityIdle
  /\ \E limit \in 1..MaxLimit :
       LimiterBuilt([DefaultConfig EXCEPT !.connectionsPerMinute = limit])

GatewayNext ==
  \/ AdvanceClock(ConnectionWindowMs)
  \/ \E remoteAddr \in RemoteAddrs, forwardedFor \in ForwardedFors, origin \in OriginHeaders :
       Upgrade(remoteAddr, forwardedFor, origin)
  \/ \E i \in 1..MaxUpgrades : HandshakeTimeout(i)
  \/ \E i \in 1..MaxUpgrades : SocketClosed(i)

GatewaySpec == GatewayInit /\ [][GatewayNext]_vars

\* The origin guard as a function of its three parameters.
Url(text, host) == [text |-> text, wellFormed |-> TRUE, host |-> host, ipv6 |-> FALSE]

OriginInputs ==
  { <<>>,
    <<[text |-> "not a url", wellFormed |-> FALSE, host |-> <<>>, ipv6 |-> FALSE]>>,
    <<Url("http://localhost:3000", <<"localhost">>)>>,
    <<Url("http://127.0.0.1:3000", <<"127", "0", "0", "1">>)>>,
    <<[text |-> "http://[::1]:3000", wellFormed |-> TRUE, host |-> <<"::1">>, ipv6 |-> TRUE]>>,
    <<Url("https://node.ts.net", <<"node", "ts", "net">>)>>,
    <<Url("https://ts.net", <<"ts", "net">>)>>,
    <<Url("https://evil.example", <<"evil", "example">>)>>,
    <<Url("https://app.example.com", <<"app", "example", "com">>)>>,
    <<Url("https://example.com", <<"example", "com">>)>>,
    <<Url("https://badexample.com", <<"badexample", "com">>)>> }

RemoteAddrInputs ==
  {None, "127.0.0.1", "::1", "127.9.9.9", "::ffff:127.0.0.1", "ip1"}

AllowlistEntry(text, labels) == [text |-> text, labels |-> labels]

AllowlistInputs ==
  { <<>>,
    << <<>> >>,
    << <<AllowlistEntry("https://evil.example", <<"https://evil", "example">>)>> >>,
    << <<AllowlistEntry("example.com", <<"example", "com">>)>> >>,
    << <<AllowlistEntry("other.example", <<"other", "example">>),
         AllowlistEntry("*.example.com", <<"*", "example", "com">>)>> >> }

OriginInit ==
  /\ ApprovalInit
  /\ eventEmitter = FALSE
  /\ mode = None
  /\ calls = <<>>
  /\ pmIn = None
  /\ pmOut = <<>>
  /\ LimiterIdle
  /\ sockets = <<>>
  /\ fnIn \in [origin : OriginInputs, remoteAddr : RemoteAddrInputs,
               allowedOrigins : AllowlistInputs]
  /\ fnOut = <<>>
  /\ responses = [client \in Clients |-> <<>>]
  /\ CryptoIdle

OriginCheck ==
  /\ fnOut = <<>>
  /\ fnOut' = <<ValidateWebSocketOrigin(fnIn.origin, fnIn.remoteAddr, fnIn.allowedOrigins)>>
  /\ UNCHANGED <<approvalVars, wrapperVars, pmIn, pmOut, limiterVars, sockets, fnIn,
                 responses, cryptoVars>>

OriginNext == OriginCheck

OriginSpec == OriginInit /\ [][OriginNext]_vars

\* Connections opened and closed while approvals are pending and the limiter
\* holds state for their IP: the peer "ip1" connects, its connections make RPC
\* calls, tools of several sessions ask for approval, an authentication from
\* that IP fails, and connections close.
TeardownInit ==
  /\ ApprovalInit
  /\ eventEmitter = FALSE
  /\ mode = None
  /\ calls = <<>>
  /\ pmIn = None
  /\ pmOut = <<>>
  /\ sockets = <<>>
  /\ UtilityIdle
  /\ LimiterBuilt([DefaultConfig EXCEPT !.rpcCallsPerSecond = MaxLimit])

TeardownNext ==
  \/ Upgrade("ip1", <<>>, <<>>)
  \/ \E i \in 1..MaxUpgrades :
       i <= Len(sockets) /\ ~sockets[i].closed /\ CheckRpcCall(ConnIdOf(i))
  \/ \E c \in RunContexts, a \in DirectActions : RequestApproval(c.sessionKey, c.runId, a)
  \/ authFailuresByIp = <<>> /\ RecordAuthFailure("ip1")
  \/ \E i \in 1..MaxUpgrades : SocketClosed(i)

TeardownSpec == TeardownInit /\ [][TeardownNext]_vars

\* The gateway's approval handler over the approval manager: tools request
\* approvals, clients answer with well-formed and ill-formed calls, timers fire.
RequestIdParams ==
  { [isString |-> FALSE, padded |-> FALSE, id |-> 0],
    [isString |-> TRUE, padded |-> TRUE, id |-> 0],
    [isString |-> TRUE, padded |-> TRUE, id |-> 1] }
  \cup { [isString |-> TRUE, padded |-> FALSE, id |-> id] : id \in RequestIds }

DecisionParams == Decisions \cup {None, "approve"}

RespondInit ==
  /\ ApprovalInit
  /\ eventEmitter = FALSE
  /\ mode = None
  /\ calls = <<>>
  /\ PureIdle

RespondNext ==
  \/ \E c \in RunContexts, a \in DirectActions : RequestApproval(c.sessionKey, c.runId, a)
  \/ \E client \in Clients, requestIdParam \in RequestIdParams, decision \in DecisionParams :
       ApprovalRespond(client, requestIdParam, decision)
  \/ \E id \in RequestIds : TimerFire(id)

RespondSpec == RespondInit /\ [][RespondNext]_vars

\* The detector as a function of its input.
DetectInputs ==
  { [isString |-> FALSE, phrases |-> <<>>] }
  \cup { [isString |-> TRUE, phrases |-> phrases] : phrases \in SeqsUpTo(Phrases, MaxPhrases) }

DetectInit ==
  /\ ApprovalInit
  /\ eventEmitter = FALSE
  /\ mode = None
  /\ calls = <<>>
  /\ pmIn = None
  /\ pmOut = <<>>
  /\ LimiterIdle
  /\ sockets = <<>>
  /\ fnIn \in DetectInputs
  /\ fnOut = <<>>
  /\ responses = [client \in Clients |-> <<>>]
  /\ CryptoIdle

DetectCheck ==
  /\ fnOut = <<>>
  /\ fnOut' = <<DetectPromptInjection(fnIn)>>
  /\ UNCHANGED <<approvalVars, wrapperVars, pmIn, pmOut, limiterVars, sockets, fnIn,
                 responses, cryptoVars>>

DetectNext == DetectCheck

DetectSpec == DetectInit /\ [][DetectNext]_vars

\* The session encryption: the process starts with no key file, with one that
\* is too short or with a key written by an earlier run, in a state directory
\* that can or cannot be written; strings drawn from the inputs and from the
\* results of earlier calls are encrypted and decrypted, and the environment
\* variable changes.
CryptoInputs ==
  { PlainString(<<>>), PlainString(<<"a">>), PlainString(<<LoneSurrogate>>),
    MalformedString(9), MalformedString(40),
    Envelope(ForeignKey, 0, PlainString(<<"a">>)) }

KeyFilesAtStart ==
  { <<>>, <<[length |-> 0, key |-> 0]>>, <<[length |-> KeyLength, key |-> FoundKey]>> }

\* The strings the process holds: the inputs and what the calls returned.
Held ==
  CryptoInputs \cup {sealed[k].result.value : k \in 1..Len(sealed)}
    \cup {lastCall[k].result.value : k \in 1..Len(lastCall)}

CryptoInit ==
  /\ ApprovalInit
  /\ eventEmitter = FALSE
  /\ mode = None
  /\ calls = <<>>
  /\ pmIn = None
  /\ pmOut = <<>>
  /\ LimiterIdle
  /\ sockets = <<>>
  /\ fnIn = None
  /\ fnOut = <<>>
  /\ responses = [client \in Clients |-> <<>>]
  /\ sessionEncryption \in EnvValues
  /\ keyFile \in KeyFilesAtStart
  /\ stateDirWritable \in BOOLEAN
  /\ cryptoCalls = 0
  /\ lastCall = <<>>
  /\ sealed = <<>>

CryptoNext ==
  \/ \E plaintext \in Held : Encrypt(plaintext)
  \/ \E data \in Held : Decrypt(data)
  \/ \E value \in EnvValues : SetSessionEncryption(value)

CryptoSpec == CryptoInit /\ [][CryptoNext]_vars

\* resolveSandboxPath as a function of its parameters: absolute, home and
\* relative paths over a few segment names, in a sandbox rooted at /w.
SegmentNames == {"..", ".ssh", ".docker", "config.json", ".ENV", "w"}

SandboxInputs ==
  [filePath : {PathOf(anchor, segments) :
                 anchor \in {"/", "~", ""},
                 segments \in SeqsUpTo(SegmentNames, MaxSegments)},
   cwd : {<<"w">>, <<"w", "w">>},
   root : {<<"w">>}]

SandboxInit ==
  /\ ApprovalInit
  /\ eventEmitter = FALSE
  /\ mode = None
  /\ calls = <<>>
  /\ pmIn = None
  /\ pmOut = <<>>
  /\ LimiterIdle
  /\ sockets = <<>>
  /\ fnIn \in SandboxInputs
  /\ fnOut = <<>>
  /\ responses = [client \in Clients |-> <<>>]
  /\ CryptoIdle

SandboxCheck ==
  /\ fnOut = <<>>
  /\ fnOut' = <<ResolveSandboxPath(fnIn)>>
  /\ UNCHANGED <<approvalVars, wrapperVars, pmIn, pmOut, limiterVars, sockets, fnIn,
                 responses, cryptoVars>>

SandboxNext == SandboxCheck

SandboxSpec == SandboxInit /\ [][SandboxNext]_vars

\* The preview as a function of the wrapped operation and the content argument.
PreviewInputs ==
  [operation : Operations \ {"exec"},
   content : {[isString |-> FALSE, length |-> 0]}
               \cup {[isString |-> TRUE, length |-> n] : n \in 0..MaxContentLength}]

PreviewInit ==
  /\ ApprovalInit
  /\ eventEmitter = FALSE
  /\ mode = None
  /\ calls = <<>>
  /\ pmIn = None
  /\ pmOut = <<>>
  /\ LimiterIdle
  /\ sockets = <<>>
  /\ fnIn \in PreviewInputs
  /\ fnOut = <<>>
  /\ responses = [client \in Clients |-> <<>>]
  /\ CryptoIdle

PreviewCheck ==
  /\ fnOut = <<>>
  /\ fnOut' = <<BuildPreview(fnIn.operation, fnIn.content)>>
  /\ UNCHANGED <<approvalVars, wrapperVars, pmIn, pmOut, limiterVars, sockets, fnIn,
                 responses, cryptoVars>>

PreviewNext == PreviewCheck

PreviewSpec == PreviewInit /\ [][PreviewNext]_vars

\* ------------------------------------------------------------ claims

IsSettled(id) == promise[id].state # "pending"

Awaiting(c) == c \in 1..Len(calls) /\ calls[c].pc = "awaiting"

\* C1: under any interleaving of resolveApproval, the timer, cancelApprovalsForSession
\* and cancelApprovalsForRun, the resolve/reject functions of a request's promise
\* are called at most once (never before the request is settled, once after), and
\* a settled outcome never changes.
C1_SettledAtMostOnce ==
  /\ [](\A id \in DOMAIN promise :
          /\ settleCalls[id] <= 1
          /\ (settleCalls[id] = 1 <=> IsSettled(id)))
  /\ [][\A id \in DOMAIN promise : IsSettled(id) => promise'[id] = promise[id]]_vars

\* A request was cancelled and a later resolveApproval found nothing to settle.
C1_Witness ==
  /\ nextId = 2
  /\ promise[1] = Rejected("Approval cancelled")
  /\ lastResult = "error: Approval request not found or already resolved"

\* C2: a wrapped call that opened an approval request executes the tool at most
\* once, only once the request is fulfilled with a decision other than deny, not
\* while it is pending, and after a deny never, returning the denial block.
C2_ExecuteOnlyAfterApproval ==
  \A c \in 1..Len(calls) :
    LET call == calls[c]
    IN call.req # 0 =>
         /\ call.execs <= 1
         /\ call.execs = 1 =>
              /\ promise[call.req].state = "fulfilled"
              /\ promise[call.req].decision # "deny"
              /\ call.pc = "done"
         /\ (promise[call.req].state = "fulfilled" /\ promise[call.req].decision = "deny")
              => /\ call.execs = 0
                 /\ call.pc = "done" => call.result = ToolResult("denied", <<>>)
         /\ (call.pc = "done" /\ promise[call.req].state = "fulfilled"
               /\ promise[call.req].decision # "deny")
              => call.execs = 1 /\ call.result = ToolResult("executed", <<>>)

\* One call ran the tool after allow-once, another returned the denial block.
C2_Witness ==
  \E c, d \in 1..Len(calls) :
    /\ calls[c].req # 0 /\ calls[c].execs = 1
    /\ promise[calls[c].req].decision = "allow-once"
    /\ calls[d].req # 0 /\ calls[d].result = ToolResult("denied", <<>>)

\* C3: hasPendingApproval(id) holds exactly while the request's promise is
\* unsettled: it is true when the request is created, and once false it is
\* never true again.
C3_PendingIffUnsettled ==
  /\ [](/\ DOMAIN pendingApprovals \subseteq DOMAIN promise
        /\ \A id \in DOMAIN promise : HasPendingApproval(id) <=> ~IsSettled(id))
  /\ [][/\ \A id \in DOMAIN promise' \ DOMAIN promise : HasPendingApproval(id)'
        /\ \A id \in DOMAIN promise : ~HasPendingApproval(id) => ~HasPendingApproval(id)']_vars

\* One request has timed out while a later one is still pending.
C3_Witness ==
  /\ nextId = 3
  /\ promise[1] = Rejected("Approval request timed out")
  /\ ~HasPendingApproval(1)
  /\ HasPendingApproval(2)

\* C4: a pending request always has its timer armed; the timer's firing removes
\* the entry and rejects the promise with the timeout error; so every pending
\* request is eventually settled and every awaiting wrapped call eventually
\* returns.
C4_EventuallySettled ==
  /\ [](DOMAIN pendingApprovals \subseteq timers)
  /\ [][\A id \in RequestIds :
          (HasPendingApproval(id) /\ TimerFire(id)) =>
             /\ ~HasPendingApproval(id)'
             /\ promise'[id] = Rejected("Approval request timed out")]_vars
  /\ \A id \in RequestIds :
       [](HasPendingApproval(id) =>
            <>(~HasPendingApproval(id) /\ id \in DOMAIN promise /\ IsSettled(id)))
  /\ \A c \in 1..MaxCalls : [](Awaiting(c) => <>(~Awaiting(c)))

\* A wrapped call has returned after its request timed out.
C4_Witness ==
  \E c \in 1..Len(calls) :
    /\ calls[c].req # 0 /\ calls[c].pc = "done"
    /\ promise[calls[c].req] = Rejected("Approval request timed out")

\* C5: resolveApproval on an id that is not pending returns the error result
\* and changes nothing: registry, timers, promises and the emitted events.
C5_ResolveNotPendingIsNoOp ==
  [][\A id \in RequestIds, d \in Decisions :
       (~HasPendingApproval(id) /\ ResolveApproval(id, d)) =>
          /\ lastResult' = "error: Approval request not found or already resolved"
          /\ UNCHANGED <<pendingApprovals, timers, promise, settleCalls, events>>]_vars

\* resolveApproval has returned the error while one request was already
\* resolved and the emitter installed.
C5_Witness ==
  /\ lastResult = "error: Approval request not found or already resolved"
  /\ eventEmitter
  /\ \E id \in DOMAIN promise : promise[id].state = "fulfilled"

\* C6: when the awaited approval fails (timeout, session cancel, run cancel) the
\* wrapper does not execute the tool and returns the timeout block, which no
\* other outcome produces; every finished call carries a tool result.
C6_FailureGivesTimeoutBlock ==
  \A c \in 1..Len(calls) :
    LET call == calls[c]
    IN /\ (call.req # 0 /\ promise[call.req].state = "rejected") =>
            /\ call.execs = 0
            /\ call.pc = "done" => call.result = ToolResult("timeout", <<>>)
       /\ call.pc = "done" =>
            /\ call.result.kind \in {"executed", "denied", "timeout", "error"}
            /\ call.result.kind = "timeout" =>
                 (call.req # 0 /\ promise[call.req].state = "rejected")

\* A call returned the timeout block after its run was aborted.
C6_Witness ==
  \E c \in 1..Len(calls) :
    /\ calls[c].req # 0
    /\ promise[calls[c].req] = Rejected("Approval cancelled - run aborted")
    /\ calls[c].result = ToolResult("timeout", <<>>)

\* C7: cancelApprovalsForSession(s) rejects every pending request of session s
\* with "Approval cancelled" and removes it and its timer; every other pending
\* request stays pending, unchanged, its timer armed and its promise unsettled.
C7_CancelSessionFrame ==
  [][\A s \in Sessions :
       CancelApprovalsForSession(s) =>
         /\ \A id \in DOMAIN pendingApprovals :
              IF pendingApprovals[id].request.sessionKey = s
                THEN /\ ~HasPendingApproval(id)'
                     /\ id \notin timers'
                     /\ promise'[id] = Rejected("Approval cancelled")
                ELSE /\ HasPendingApproval(id)'
                     /\ pendingApprovals'[id] = pendingApprovals[id]
                     /\ id \in timers'
                     /\ promise'[id] = Unsettled
         /\ \A id \in DOMAIN pendingApprovals' :
              pendingApprovals'[id].request.sessionKey # s]_vars

\* A request of S1 was cancelled while a request of S2 is still pending.
C7_Witness ==
  \E id, other \in DOMAIN promise :
    /\ promise[id] = Rejected("Approval cancelled")
    /\ HasPendingApproval(other)
    /\ pendingApprovals[other].request.sessionKey = "S2"
    /\ other \in timers

\* C8: cancelApprovalsForRun(r) rejects every pending request of run r with
\* "Approval cancelled - run aborted" and removes it and its timer; pending
\* requests of other runs, of the same session too, stay pending and unsettled.
C8_CancelRunFrame ==
  [][\A r \in Runs :
       CancelApprovalsForRun(r) =>
         /\ \A id \in DOMAIN pendingApprovals :
              IF pendingApprovals[id].request.runId = r
                THEN /\ ~HasPendingApproval(id)'
                     /\ id \notin timers'
                     /\ promise'[id] = Rejected("Approval cancelled - run aborted")
                ELSE /\ HasPendingApproval(id)'
                     /\ pendingApprovals'[id] = pendingApprovals[id]
                     /\ id \in timers'
                     /\ promise'[id] = Unsettled
         /\ \A id \in DOMAIN pendingApprovals' :
              pendingApprovals'[id].request.runId # r]_vars

\* Run R1 was aborted while a request of run R2, of the same session, is pending.
C8_Witness ==
  \E id, other \in DOMAIN promise :
    /\ promise[id] = Rejected("Approval cancelled - run aborted")
    /\ HasPendingApproval(other)
    /\ pendingApprovals[other].request.runId = "R2"
    /\ pendingApprovals[other].request.sessionKey = "S1"

\* The canonical form of a path, as path.resolve computes it: "~" and "~/..."
\* expand to the home of the process, then empty and "." segments are dropped
\* and ".." removes the segment before it.
RECURSIVE SplitSegments(_, _)
SplitSegments(s, current) ==
  IF s = <<>> THEN <<current>>
  ELSE IF Head(s) = "/" THEN <<current>> \o SplitSegments(Tail(s), <<>>)
  ELSE SplitSegments(Tail(s), Append(current, Head(s)))

RECURSIVE ResolveSegments(_, _)
ResolveSegments(segments, stack) ==
  IF segments = <<>> THEN stack
  ELSE LET seg == Head(segments)
           rest == Tail(segments)
       IN IF seg = <<>> \/ seg = <<".">> THEN ResolveSegments(rest, stack)
          ELSE IF seg = <<".", ".">>
            THEN ResolveSegments(rest, IF stack = <<>> THEN <<>>
                                       ELSE SubSeq(stack, 1, Len(stack) - 1))
          ELSE ResolveSegments(rest, Append(stack, seg))

ExpandHome(p) ==
  IF p = <<"~">> \/ StartsWith(p, <<"~", "/">>) THEN EnvHome \o Tail(p) ELSE p

Canonical(p) == ResolveSegments(SplitSegments(ExpandHome(p), <<>>), <<>>)

\* The path is given, a home is configured, and the canonical path is the
\* canonical home or lies below it.
InsideHome(filePath, homeDir) ==
  /\ filePath # <<>>
  /\ homeDir # <<>>
  /\ StartsWith(Canonical(filePath), Canonical(homeDir))

PermChecked == pmOut # <<>>

\* C9: checkPermissionMode allows exactly when the mode is unset, auto or
\* dangerously-skip, or the path is inside the home directory, or the operation
\* is read; a plan-mode denial names Plan mode and an ask-mode denial says that
\* approval is required.
C9_FourRuleTable ==
  PermChecked =>
    /\ pmOut[1].allowed <=>
         \/ mode \in {None, "auto", "dangerously-skip"}
         \/ InsideHome(pmIn.filePath, pmIn.homeDir)
         \/ pmIn.operation = "read"
    /\ ~pmOut[1].allowed =>
         pmOut[1].reason = <<IF mode = "plan" THEN "Plan mode"
                          ELSE "Ask mode: requires approval", pmIn.operation>>

\* C10: in plan or ask mode a write or exec is allowed by the home rule only
\* when the canonical path lies inside the home directory (the "only when" half
\* of the claimed equivalence).
C10_HomeRuleCanonical ==
  (PermChecked /\ mode \in {"plan", "ask"} /\ pmIn.operation \in {"write", "exec"}
     /\ pmOut[1].allowed)
    => InsideHome(pmIn.filePath, pmIn.homeDir)

\* C11: when the check denies and the mode is plan, or the mode is ask with the
\* session key or the run id missing, the wrapper returns the denial reason as
\* the tool's output, does not execute the tool, leaves the registry and the
\* pending count as they were and emits no event.
C11_DenialWithoutApproval ==
  [][\A tool \in WrappedTools, p \in CallPaths, ctx \in WrapContexts :
       LET check == CheckPermissionMode(tool.operation, p, mode, ctx.homeDir)
       IN (/\ ~check.allowed
           /\ \/ mode = "plan"
              \/ mode = "ask" /\ (ctx.sessionKey = None \/ ctx.runId = None)
           /\ WrapperInvoke(tool, p, ctx, ResolveMode, ResolveMode))
          => /\ calls' = Append(calls, Finished(0, ToolResult("error", check.reason)))
             /\ GetPendingApprovalCount' = GetPendingApprovalCount
             /\ UNCHANGED <<pendingApprovals, timers, promise, nextId, events>>]_vars

\* With the emitter installed, a write in ask mode without a run id was
\* refused and emitted nothing; the only event and the only pending request
\* are those of the next call, which had both keys.
C11_Witness ==
  /\ eventEmitter
  /\ mode = "ask"
  /\ Len(calls) = 2
  /\ calls[1] = Finished(0, ToolResult("error", <<"Ask mode: requires approval", "write">>))
  /\ calls[2].pc = "awaiting"
  /\ Len(events) = 1
  /\ GetPendingApprovalCount = 1

\* C12: every invocation is decided under the mode the getter returns at the
\* time of the call: a write outside home executes directly when the mode is
\* unset, auto or dangerously-skip, is refused with the plan-mode reason in plan
\* mode, and is not executed by the invocation in ask mode, whatever the mode
\* was at the calls before.
C12_ModeReadAtCallTime ==
  [][\A tool \in {t \in WrappedTools : t.operation = "write"}, ctx \in WrapContexts :
       WrapperInvoke(tool, <<"/">>, ctx, ResolveMode, ResolveMode) =>
         LET call == calls'[Len(calls')]
         IN /\ mode \in {None, "auto", "dangerously-skip"} =>
                 call = Finished(1, ToolResult("executed", <<>>))
            /\ mode = "plan" =>
                 call = Finished(0, ToolResult("error", <<"Plan mode", "write">>))
            /\ mode = "ask" => call.execs = 0]_vars

\* A write was refused under plan, the mode flipped to auto, and the next call
\* executed directly.
C12_Witness ==
  /\ mode = "auto"
  /\ Len(calls) = 2
  /\ calls[1] = Finished(0, ToolResult("error", <<"Plan mode", "write">>))
  /\ calls[2] = Finished(1, ToolResult("executed", <<>>))

\* The instants at which a call for the key was allowed, and how many of them
\* lie in the window (t - windowMs, t].
AdmittedInstants(key) == {admitted[key][i] : i \in 1..Len(admitted[key])}

AdmittedIn(key, t, windowMs) ==
  Cardinality({i \in 1..Len(admitted[key]) :
                 admitted[key][i] > t - windowMs /\ admitted[key][i] <= t})

Oldest(S) == CHOOSE x \in S : \A y \in S : x <= y

C14_RetryAfter ==
  [][\A ip \in TrackedIps :
       CheckConnection(ip) =>
         LET inWindow == {t \in AdmittedInstants(ip) : t > now - ConnectionWindowMs}
             result == lastCheck'[ip].result
         IN /\ result.allowed <=>
                 AdmittedIn(ip, now, ConnectionWindowMs) < config.connectionsPerMinute
            /\ ~result.allowed =>
                 /\ result.retryAfterMs = Oldest(inWindow) + ConnectionWindowMs - now
                 /\ result.retryAfterMs > 0
            /\ (/\ ip \in DOMAIN lastCheck
                /\ ~lastCheck[ip].result.allowed
                /\ now >= lastCheck[ip].at + lastCheck[ip].result.retryAfterMs)
                 => result.allowed]_vars

\* With a limit of two, the IP was allowed at 0 and at 1 and then refused at 1,
\* until the first of the two leaves the window.
C14_Witness ==
  /\ config.connectionsPerMinute = 2
  /\ admitted["ip1"] = <<0, 1>>
  /\ now = 1
  /\ "ip1" \in DOMAIN lastCheck
  /\ lastCheck["ip1"] =
       [result |-> RateDenied("connection rate limit exceeded", ConnectionWindowMs - 1),
        at |-> 1]

\* The lockout the last recordAuthFailure(ip) raised or extended: it returned
\* denied with retryAfterMs = d at the instant t, and LockoutEnd is t + d.
RaisedLockout(ip) == ip \in DOMAIN lastFailure /\ ~lastFailure[ip].result.allowed

LockoutEnd(ip) == lastFailure[ip].at + lastFailure[ip].result.retryAfterMs

\* The IP has an entry whose lockout is active.
ActiveLockout(ip) ==
  /\ ip \in DOMAIN authFailuresByIp
  /\ authFailuresByIp[ip].lockoutUntil # 0
  /\ now < authFailuresByIp[ip].lockoutUntil

\* C15 as stated: after recordAuthFailure(ip) returned denied with d at t and
\* no further failure was recorded, checkAuthAttempt(ip) is denied at every
\* instant of [t, t + d) with the remaining time and allowed from t + d on, and
\* it is denied only inside such a lockout.
C15_LockoutWhateverFollows ==
  \A ip \in TrackedIps :
    LET result == AuthAttemptResult(ip)
    IN /\ (RaisedLockout(ip) /\ now < LockoutEnd(ip)) =>
            (~result.allowed /\ result.retryAfterMs = LockoutEnd(ip) - now)
       /\ (RaisedLockout(ip) /\ now >= LockoutEnd(ip)) => result.allowed
       /\ ~result.allowed => (RaisedLockout(ip) /\ now < LockoutEnd(ip))

\* C15, amended: the same, provided also that clearAuthFailures(ip) was not
\* called since that failure.
C15_LockoutUntilRetryElapses ==
  \A ip \in TrackedIps :
    LET result == AuthAttemptResult(ip)
    IN /\ (RaisedLockout(ip) /\ ip \notin cleared /\ now < LockoutEnd(ip)) =>
            (~result.allowed /\ result.retryAfterMs = LockoutEnd(ip) - now)
       /\ (RaisedLockout(ip) /\ now >= LockoutEnd(ip)) => result.allowed
       /\ ~result.allowed =>
            (RaisedLockout(ip) /\ ip \notin cleared /\ now < LockoutEnd(ip))

\* checkAuthAttempt was denied one millisecond before the end of a lockout.
C15_Witness ==
  /\ RaisedLockout("ip1")
  /\ now = LockoutEnd("ip1") - 1
  /\ authResult = <<[ip |-> "ip1",
                     result |-> RateDenied("auth locked out due to repeated failures", 1)]>>

\* C16: while the IP is locked out, recordAuthFailure changes the multiplier
\* from k to min(2k, 32), sets lockoutUntil to now + windowMs * the new
\* multiplier, never earlier than the deadline before, and returns denied with
\* that new length.
C16_LockedFailureDoubles ==
  [][\A ip \in TrackedIps :
       (ActiveLockout(ip) /\ RecordAuthFailure(ip)) =>
         LET old == authFailuresByIp[ip]
             new == authFailuresByIp'[ip]
             result == lastFailure'[ip].result
         IN /\ new.backoffMultiplier =
                 (IF 2 * old.backoffMultiplier < 32 THEN 2 * old.backoffMultiplier ELSE 32)
            /\ new.lockoutUntil = now + AuthWindowMs * new.backoffMultiplier
            /\ new.lockoutUntil >= old.lockoutUntil
            /\ ~result.allowed
            /\ result.retryAfterMs = AuthWindowMs * new.backoffMultiplier]_vars

\* A lockout was extended twice, the second time after the clock had moved.
C16_Witness ==
  /\ now > 0
  /\ ActiveLockout("ip1")
  /\ authFailuresByIp["ip1"].backoffMultiplier = 4
  /\ authFailuresByIp["ip1"].lockoutUntil = now + AuthWindowMs * 4

\* C17: for an IP that is not locked out, recordAuthFailure opens a lockout
\* exactly when the failures recorded in the last windowMs, this one included,
\* reach authFailuresBeforeLockout, of length windowMs * the current multiplier;
\* with fewer it returns allowed and the IP is not locked.
C17_LockoutAtThreshold ==
  [][\A ip \in TrackedIps :
       (~ActiveLockout(ip) /\ RecordAuthFailure(ip)) =>
         LET recent == 1 + Cardinality({i \in 1..Len(failureLog[ip]) :
                                          failureLog[ip][i] > now - AuthWindowMs})
             k == IF ip \in DOMAIN authFailuresByIp
                    THEN authFailuresByIp[ip].backoffMultiplier ELSE 1
             result == lastFailure'[ip].result
         IN IF recent >= config.authFailuresBeforeLockout
              THEN /\ ~result.allowed
                   /\ result.retryAfterMs = AuthWindowMs * k
                   /\ authFailuresByIp'[ip].lockoutUntil = now + AuthWindowMs * k
                   /\ ActiveLockout(ip)'
              ELSE /\ result.allowed
                   /\ ~ActiveLockout(ip)']_vars

\* With a threshold of two, a failure at 0 and one in the last millisecond of
\* its window opened a lockout of one window.
C17_Witness ==
  /\ config.authFailuresBeforeLockout = 2
  /\ failureLog["ip1"] = <<0, AuthWindowMs - 1>>
  /\ now = AuthWindowMs - 1
  /\ lastFailure["ip1"] =
       [result |-> RateDenied("auth locked out after failures", AuthWindowMs), at |-> now]
  /\ ActiveLockout("ip1")

\* C18: every auth-failure record has a backoff multiplier in 1..32.
C18_BackoffInRange ==
  \A ip \in DOMAIN authFailuresByIp :
    authFailuresByIp[ip].backoffMultiplier \in 1..32

\* The multiplier has reached the cap and one more failure was recorded.
C18_Witness ==
  /\ "ip1" \in DOMAIN authFailuresByIp
  /\ authFailuresByIp["ip1"].backoffMultiplier = 32
  /\ authFailuresByIp["ip1"].lockoutUntil = now + AuthWindowMs * 32
  /\ Len(failureLog["ip1"]) = 6 + config.authFailuresBeforeLockout

\* C19: clearAuthFailures(ip) erases the record in any state; until the next
\* failure checkAuthAttempt(ip) is allowed; the next failure starts from an
\* empty window and multiplier 1; and an IP is locked out only after at least
\* the threshold of failures since its last clear.
C19_ClearReturnsToClean ==
  /\ [][\A ip \in TrackedIps :
          ClearAuthFailures(ip) =>
            (ip \notin DOMAIN authFailuresByIp' /\ AuthAttemptResult(ip)' = RateAllowed)]_vars
  /\ [](\A ip \in cleared :
          ip \notin DOMAIN authFailuresByIp /\ AuthAttemptResult(ip) = RateAllowed)
  /\ [][\A ip \in TrackedIps :
          (ip \in cleared /\ RecordAuthFailure(ip)) =>
            /\ authFailuresByIp'[ip].failures = <<now>>
            /\ authFailuresByIp'[ip].backoffMultiplier = 1]_vars
  /\ [](\A ip \in TrackedIps :
          ActiveLockout(ip) => Len(failureLog[ip]) >= config.authFailuresBeforeLockout)

\* The IP was cleared inside a lockout whose multiplier was 2, and the
\* checkAuthAttempt that followed was allowed.
C19_Witness ==
  /\ "ip1" \in cleared
  /\ RaisedLockout("ip1")
  /\ lastFailure["ip1"].result.retryAfterMs = AuthWindowMs * 2
  /\ now < LockoutEnd("ip1")
  /\ authResult = <<[ip |-> "ip1", result |-> RateAllowed]>>

\* C20: on every connection the rate-limit check ran first and the origin
\* check, if the first passed, second; a connection on which either failed is
\* closed with status 1008 and has been sent no connect.challenge, has no
\* handshake timer armed and no handler attached; a connection has been sent
\* the challenge only if it passed both checks; and the limiter has counted
\* exactly the upgrades it allowed, whatever the origin check said.
C20_ScreenedBeforeHandshake ==
  /\ \A i \in 1..Len(sockets) :
       LET socket == sockets[i]
           failed == \E k \in 1..Len(socket.checks) : ~socket.checks[k].passed
       IN /\ socket.checks[1].check = "rate"
          /\ Len(socket.checks) = (IF socket.checks[1].passed THEN 2 ELSE 1)
          /\ Len(socket.checks) = 2 => socket.checks[2].check = "origin"
          /\ failed =>
               /\ socket.closeCode = 1008
               /\ socket.sent = <<>>
               /\ ~socket.handshakeTimer
               /\ socket.handlers = {}
          /\ socket.sent # <<>> =>
               /\ socket.sent = <<"connect.challenge">>
               /\ ~failed
  /\ Cardinality({i \in 1..Len(sockets) : sockets[i].checks[1].passed})
       = Len(admitted["ip1"]) + Len(admitted["ip2"]) + Len(admitted["127.0.0.1"])
         + Len(admitted["unknown"])

\* One upgrade was refused by the rate limiter, one by the origin guard, after
\* the limiter had allowed it.
C20_Witness ==
  /\ Len(sockets) = 2
  /\ \E i, j \in 1..2 :
       /\ sockets[i].checks = <<Check("rate", FALSE)>>
       /\ sockets[i].closeReason = "connection rate limit exceeded"
       /\ sockets[i].closeCode = 1008
       /\ sockets[j].checks = <<Check("rate", TRUE), Check("origin", FALSE)>>
       /\ sockets[j].closeReason = "origin_not_in_allowlist"
       /\ sockets[j].closeCode = 1008

\* The loopback addresses: IPv4 127.0.0.0/8, IPv4-mapped ::ffff:127.0.0.0/104
\* and IPv6 ::1.
LoopbackAddresses == {"127.0.0.1", "127.9.9.9", "::ffff:127.0.0.1", "::1"}

\* The hosts allowed without an allowlist: localhost, 127.0.0.1, ::1 and every
\* host ending in .ts.net.
AlwaysAllowedHost(host) ==
  \/ host \in {<<"localhost">>, <<"127", "0", "0", "1">>, <<"::1">>}
  \/ Len(host) > 2 /\ host[Len(host) - 1] = "ts" /\ host[Len(host)] = "net"

\* A literal match of the origin or its host with an entry, or a match of the
\* host with a "*.domain" entry.
AllowlistMatch(origin, entries) ==
  \E i \in 1..Len(entries) :
    LET entry == entries[i].labels
    IN \/ entries[i].text = origin.text
       \/ entry = origin.host
       \/ /\ Len(entry) >= 2 /\ entry[1] = "*"
          /\ Len(origin.host) >= Len(entry) - 1
          /\ \A k \in 1..(Len(entry) - 1) :
               origin.host[Len(origin.host) - k + 1] = entry[Len(entry) - k + 1]

\* C21: the origin guard decides in this order: a loopback peer is allowed;
\* otherwise a missing Origin is allowed; otherwise a malformed Origin is
\* rejected with invalid_origin_format; otherwise the hosts localhost,
\* 127.0.0.1, ::1 and those ending in .ts.net are allowed; otherwise a missing
\* or empty allowlist rejects and a non-empty one allows exactly on a literal
\* or wildcard match.
C21_OriginGuardOrder ==
  fnOut # <<>> =>
    LET origin == fnIn.origin
        allowlist == fnIn.allowedOrigins
        result == fnOut[1]
    IN IF fnIn.remoteAddr \in LoopbackAddresses THEN result.valid
       ELSE IF origin = <<>> THEN result.valid
       ELSE IF ~origin[1].wellFormed
         THEN result = [valid |-> FALSE, reason |-> "invalid_origin_format"]
       ELSE IF AlwaysAllowedHost(origin[1].host) THEN result.valid
       ELSE IF allowlist = <<>> \/ allowlist[1] = <<>> THEN ~result.valid
       ELSE result.valid <=> AllowlistMatch(origin[1], allowlist[1])

\* Connection i closes in this step: its close handler runs.
ClosesNow(i) ==
  /\ i \in 1..Len(sockets)
  /\ "close" \in sockets[i].handlers
  /\ "close" \notin sockets'[i].handlers

\* C22: the close of a connection removes that connection's RPC window from
\* the limiter and leaves unchanged the approval registry (every pending
\* approval stays pending, its timer armed and its promise unsettled), the RPC
\* windows of the other connections and the per-IP connection and
\* auth-failure state.
C22_CloseFrame ==
  [][\A i \in 1..MaxUpgrades :
       ClosesNow(i) =>
         /\ ConnIdOf(i) \notin DOMAIN rpcCallsByConnection'
         /\ \A other \in DOMAIN rpcCallsByConnection \ {ConnIdOf(i)} :
              /\ other \in DOMAIN rpcCallsByConnection'
              /\ rpcCallsByConnection'[other] = rpcCallsByConnection[other]
         /\ DOMAIN rpcCallsByConnection' \subseteq DOMAIN rpcCallsByConnection
         /\ pendingApprovals' = pendingApprovals
         /\ timers' = timers
         /\ promise' = promise
         /\ settleCalls' = settleCalls
         /\ connectionsByIp' = connectionsByIp
         /\ authFailuresByIp' = authFailuresByIp]_vars

\* The first connection has closed while the second, with calls in its RPC
\* window, stays open, two approvals are pending and the IP has a connection
\* window and an auth-failure record.
C22_Witness ==
  /\ Len(sockets) = 2
  /\ sockets[1].closed /\ ~sockets[2].closed
  /\ "conn1" \in removed
  /\ "conn1" \notin DOMAIN rpcCallsByConnection
  /\ Len(admitted["conn1"]) > 0
  /\ "conn2" \in DOMAIN rpcCallsByConnection
  /\ Len(rpcCallsByConnection["conn2"]) = MaxLimit
  /\ Cardinality(DOMAIN pendingApprovals) = 2
  /\ \A id \in DOMAIN pendingApprovals : promise[id] = Unsettled /\ id \in timers
  /\ "ip1" \in DOMAIN connectionsByIp
  /\ "ip1" \in DOMAIN authFailuresByIp

\* Client received a new response in this step.
Answered(client) == responses'[client] # responses[client]

\* C23: chat.approval.respond settles a request only for a well-formed call.
\* An error response carries INVALID_REQUEST and leaves the registry
\* unchanged; an {ok:true} response names a request that was pending before
\* the call and is settled by it with the decision of the response, which is
\* one of the four; so of two clients answering the same request exactly one
\* receives {ok:true} and determines the decision, and the other receives the
\* error for a request not found or already resolved.
C23_RespondSettlesOnce ==
  /\ [][\A client \in Clients :
          Answered(client) =>
            LET response == responses'[client][1]
            IN IF response.ok
                 THEN /\ response.decision \in Decisions
                      /\ response.requestId \in DOMAIN pendingApprovals
                      /\ response.requestId \notin DOMAIN pendingApprovals'
                      /\ promise[response.requestId] = Unsettled
                      /\ promise'[response.requestId].state = "fulfilled"
                      /\ promise'[response.requestId].decision = response.decision
                 ELSE /\ response.code = "INVALID_REQUEST"
                      /\ UNCHANGED approvalVars]_vars
  /\ [](\A a, b \in Clients :
          (/\ responses[a] # <<>> /\ responses[b] # <<>>
           /\ responses[a][1].ok /\ responses[b][1].ok
           /\ responses[a][1].requestId = responses[b][1].requestId) => a = b)
  /\ [](\A client \in Clients :
          (responses[client] # <<>> /\ responses[client][1].ok) =>
            promise[responses[client][1].requestId].decision
              = responses[client][1].decision)

\* Both clients answered request 1: A was told ok and its decision settled the
\* request, B was told that the request was not found or already resolved.
C23_Witness ==
  /\ responses["A"] = <<OkResponse(1, "allow-session")>>
  /\ responses["B"] = <<ErrorResponse("Approval request not found or already resolved")>>
  /\ promise[1].state = "fulfilled"
  /\ promise[1].decision = "allow-session"
  /\ settleCalls[1] = 1

\* The positions of the approval_request events in a log of events.
RequestEvents(log) == {k \in 1..Len(log) : log[k].type = "approval_request"}

\* C24: each approval_request event is emitted in the step that registers its
\* request, after the entry was stored, so that hasPendingApproval is true for
\* it when the subscribers receive the event; and the approval_request events
\* of one session are in the order in which the requests were registered (the
\* order of the request ids).
C24_RequestEventsInOrder ==
  /\ [][\A k \in RequestEvents(events') \ RequestEvents(events) :
          /\ events'[k].requestId \notin DOMAIN promise
          /\ events'[k].requestId \in DOMAIN promise'
          /\ events'[k].pending
          /\ events'[k].requestId \in DOMAIN pendingApprovals'
          /\ pendingApprovals'[events'[k].requestId].request.sessionKey
               = events'[k].sessionKey]_vars
  /\ [](\A i, j \in RequestEvents(events) :
          (i < j /\ events[i].sessionKey = events[j].sessionKey) =>
            events[i].requestId < events[j].requestId)
  /\ [][RequestEvents(events) \subseteq RequestEvents(events')]_vars

\* Two requests of session S1 were registered and announced in that order,
\* and the first has since been resolved.
C24_Witness ==
  /\ RequestEvents(events) = {1, 2}
  /\ events[1].requestId = 1 /\ events[2].requestId = 2
  /\ events[1].sessionKey = "S1" /\ events[2].sessionKey = "S1"
  /\ events[1].pending /\ events[2].pending
  /\ Len(events) = 3
  /\ events[3].type = "approval_resolved"
  /\ HasPendingApproval(2)
  /\ pendingApprovals[2].request.runId = "R2"

\* The patterns of the table that match an input, whatever their order, and
\* the sum of their weights.
MatchingPatterns(input) ==
  {k \in 1..Len(InjectionPatterns) :
     \E i \in 1..Len(input) : input[i] \in PatternPhrases(InjectionPatterns[k].label)}

RECURSIVE WeightSum(_)
WeightSum(positions) ==
  IF positions = {} THEN 0
  ELSE LET k == CHOOSE p \in positions : \A q \in positions : q <= p
       IN InjectionPatterns[k].weight + WeightSum(positions \ {k})

\* C25: the score is min(100, the sum of the weights of the matching
\* patterns), whatever the order of the patterns; the level is none iff the
\* score is 0, low for 1-19, medium for 20-39, high for 40-69 and critical
\* from 70 on; the warning is present iff the level is high or critical.
C25_LevelFromScore ==
  fnOut # <<>> =>
    LET result == fnOut[1]
        sum == IF fnIn.isString THEN WeightSum(MatchingPatterns(fnIn.phrases)) ELSE 0
    IN /\ result.riskScore = (IF sum > 100 THEN 100 ELSE sum)
       /\ result.riskLevel = "none" <=> result.riskScore = 0
       /\ result.riskLevel = "low" <=> result.riskScore \in 1..19
       /\ result.riskLevel = "medium" <=> result.riskScore \in 20..39
       /\ result.riskLevel = "high" <=> result.riskScore \in 40..69
       /\ result.riskLevel = "critical" <=> result.riskScore >= 70
       /\ result.warning # <<>> <=> result.riskLevel \in {"high", "critical"}
       /\ {result.matchedPatterns[k] : k \in 1..Len(result.matchedPatterns)}
            = {InjectionPatterns[k].label : k \in MatchingPatterns(fnIn.phrases)}

\* An input matching patterns of weights 15 + 35 + 20 reached exactly 70 and
\* was rated critical, with the warning.
C25_Witness ==
  /\ fnOut # <<>>
  /\ fnIn.phrases = <<"jailbreak", "pretend to be", "User:">>
  /\ fnOut[1].riskScore = 70
  /\ fnOut[1].riskLevel = "critical"
  /\ fnOut[1].matchedPatterns = <<"pretend-identity", "role-delimiters", "jailbreak-mode">>
  /\ fnOut[1].warning # <<>>

\* The calls made so far: the encrypt calls and the last call.
CryptoCallsSeen ==
  {sealed[k] : k \in 1..Len(sealed)} \cup {lastCall[k] : k \in 1..Len(lastCall)}

\* C26: with encryption enabled (and the key readable or creatable), every
\* encrypt returns a string that begins with enc:v1:, and a decrypt of what an
\* encrypt of s returned gives s, for every string s and across the calls of
\* the process.
C26_RoundTrip ==
  /\ \A k \in 1..Len(sealed) :
       (sealed[k].enabled /\ sealed[k].keyAccess) => sealed[k].result.value.prefixed
  /\ \A k \in 1..Len(sealed), j \in 1..Len(lastCall) :
       (/\ sealed[k].enabled /\ sealed[k].keyAccess
        /\ lastCall[j].op = "decrypt" /\ lastCall[j].enabled
        /\ lastCall[j].input = sealed[k].result.value)
         => lastCall[j].result.value = sealed[k].input

\* C27 as stated: while the toggle is off, encrypt and decrypt return their
\* input, whatever it is.
C27_IdentityWhenOff ==
  \A call \in CryptoCallsSeen : ~call.enabled => call.result.value = call.input

\* A string that decryptSessionData decrypts under key: an envelope made with it.
Opens(data, key) == data.prefixed /\ data.plain # <<>> /\ data.key = key

\* C27, amended: while the toggle is off, encrypt returns its input, whatever
\* it is, and so does decrypt except for an envelope made with the process's
\* key, which it decrypts as when the toggle is on.
C27_EncryptIdentityWhenOff ==
  [][\A j \in 1..Len(lastCall') :
       (lastCall' # lastCall /\ ~lastCall'[j].enabled) =>
         LET call == lastCall'[j]
         IN IF call.op = "decrypt" /\ call.keyAccess
                 /\ Opens(call.input, GetOrCreateKey.key)
              THEN call.result.value = call.input.plain[1]
              ELSE call.result.value = call.input]_vars

\* With the toggle off, an envelope made while it was on was decrypted to its
\* plaintext, and an encrypt returned its input.
C27_Witness ==
  /\ ~IsSessionEncryptionEnabled
  /\ Len(sealed) = 2
  /\ sealed[1].enabled /\ sealed[1].input = PlainString(<<"a">>)
  /\ ~sealed[2].enabled /\ sealed[2].result.value = sealed[2].input
  /\ lastCall # <<>>
  /\ lastCall[1].op = "decrypt" /\ ~lastCall[1].enabled
  /\ lastCall[1].input = sealed[1].result.value
  /\ lastCall[1].result.value = PlainString(<<"a">>)

\* C28: encrypt and decrypt never raise; decrypt returns its input for every
\* input without the prefix and for every prefixed input that is malformed or
\* fails authentication (also when the key cannot be read or created), and
\* encrypt returns its input when the key cannot be read or created.
C28_TotalPassThrough ==
  [][\A j \in 1..Len(lastCall') :
       lastCall' # lastCall =>
         LET call == lastCall'[j]
         IN /\ ~call.result.threw
            /\ (call.op = "decrypt" /\ ~call.input.prefixed) =>
                 call.result.value = call.input
            /\ (call.op = "decrypt" /\ call.input.prefixed
                  /\ (~call.keyAccess \/ ~Opens(call.input, GetOrCreateKey.key))) =>
                 call.result.value = call.input
            /\ (call.op = "encrypt" /\ call.enabled /\ ~call.keyAccess) =>
                 call.result.value = call.input]_vars

\* An encrypt that could not create the key returned its input, and then a
\* decrypt of an envelope made with another key returned its input, the key
\* still out of reach.
C28_Witness ==
  /\ Len(sealed) = 1
  /\ sealed[1].enabled /\ ~sealed[1].keyAccess
  /\ sealed[1].result = Returned(PlainString(<<"a">>))
  /\ lastCall # <<>>
  /\ lastCall[1].op = "decrypt" /\ ~lastCall[1].keyAccess
  /\ lastCall[1].input = Envelope(ForeignKey, 0, PlainString(<<"a">>))
  /\ lastCall[1].result = Returned(lastCall[1].input)

\* C29: encrypt returns unchanged every input that already carries the
\* enc:v1: envelope, so that one decrypt recovers the plaintext.
C29_NoReEncryption ==
  \A k \in 1..Len(sealed) :
    sealed[k].input.prefixed => sealed[k].result.value = sealed[k].input

\* C30: resolveSandboxPath rejects with the sensitive-path error every input,
\* relative or absolute and with any number of ".." segments, whose canonical
\* absolute path matches a sensitive pattern.
C30_SensitiveCheckOnCanonical ==
  (/\ fnOut # <<>>
   /\ IsSensitivePath(PathResolve(fnIn.cwd, ExpandPath(fnIn.filePath))))
    => fnOut[1].error = SensitiveFileError

\* C31: resolveSandboxPath rejects every input whose expansion canonicalizes
\* outside root, and on every successful return the relative path does not
\* start with "..", and join(root, relative) is the resolved path returned.
C31_InsideRootAndJoin ==
  fnOut # <<>> =>
    LET canonical == PathResolve(fnIn.cwd, ExpandPath(fnIn.filePath)).segments
        root == NormalizeSegments(fnIn.root, <<>>)
        result == fnOut[1]
    IN /\ ~StartsWith(canonical, root) => result.error # None
       /\ result.error = None =>
            /\ result.relative = <<>> \/ Head(result.relative) # ".."
            /\ NormalizeSegments(fnIn.root \o result.relative, <<>>) = result.resolved

\* The recordAuthFailure(ip) call of a step, if the step is one.
RecordsFailure(ip) == Len(failureLog'[ip]) > Len(failureLog[ip])

\* How many of the timestamps are the instant t.
CountAt(timestamps, t) == Len(SelectSeq(timestamps, LAMBDA ts : ts = t))

\* C32 as stated: every recordAuthFailure(ip) call appends the instant of the
\* failure to the failures of the IP's entry, also when the IP is locked out at
\* the call.
C32_FailureAppended ==
  [][\A ip \in TrackedIps :
       RecordsFailure(ip) =>
         LET before == EntryOf(authFailuresByIp, ip, FreshAuthEntry).failures
             after == authFailuresByIp'[ip].failures
         IN /\ after # <<>>
            /\ after[Len(after)] = now
            /\ CountAt(after, now) = CountAt(before, now) + 1]_vars

\* C32, amended: a recordAuthFailure(ip) call made while the IP is not locked
\* out appends the instant of the failure to the failures of the IP's entry; a
\* call made while the IP is locked out leaves the failures as they are.
C32_FailureAppendedUnlessLockedOut ==
  [][\A ip \in TrackedIps :
       RecordsFailure(ip) =>
         LET entry == EntryOf(authFailuresByIp, ip, FreshAuthEntry)
             after == authFailuresByIp'[ip].failures
         IN IF LockedOut(entry) THEN after = entry.failures
            ELSE /\ after # <<>>
                 /\ after[Len(after)] = now
                 /\ CountAt(after, now) = CountAt(entry.failures, now) + 1]_vars

\* A failure was recorded one millisecond into a lockout and is not among the
\* failures of the entry; a failure recorded before the lockout is.
C32_Witness ==
  /\ "ip1" \in DOMAIN lastFailure /\ "ip1" \in DOMAIN authFailuresByIp
  /\ lastFailure["ip1"].at = now
  /\ lastFailure["ip1"].result.reason = "auth locked out due to repeated failures"
  /\ failureLog["ip1"] # <<>>
  /\ failureLog["ip1"][Len(failureLog["ip1"])] = now
  /\ authFailuresByIp["ip1"].failures # <<>>
  /\ CountAt(authFailuresByIp["ip1"].failures, now) = 0

\* The approval_resolved events of a log, and the step in which resolveApproval
\* settles request id.
ResolvedEvents(log) == {k \in 1..Len(log) : log[k].type = "approval_resolved"}

Settles(id) == promise[id].state = "pending" /\ promise'[id].state = "fulfilled"

\* The one approval_resolved event of id is appended, emitted with the entry
\* removed and the promise settled.
ResolvedEventAppended(id) ==
  /\ Len(events') = Len(events) + 1
  /\ SubSeq(events', 1, Len(events)) = events
  /\ LET event == events'[Len(events')]
     IN /\ event.type = "approval_resolved"
        /\ event.requestId = id
        /\ ~event.pending
        /\ event.settled
        /\ id \notin DOMAIN pendingApprovals'

\* approval_resolved is emitted only in the step that settles its request by
\* resolveApproval, at most once for a request, and never for a request that
\* timed out or was cancelled.
ResolvedEventsOnlyForResolved ==
  /\ [][\A k \in ResolvedEvents(events') \ ResolvedEvents(events) :
          Settles(events'[k].requestId)]_vars
  /\ [](\A i, j \in ResolvedEvents(events) :
          events[i].requestId = events[j].requestId => i = j)
  /\ [](\A k \in ResolvedEvents(events) :
          promise[events[k].requestId].state = "fulfilled")

\* C33 as stated: resolveApproval emits approval_resolved after it has removed
\* the entry and settled the promise; the event is emitted exactly once for
\* each request that resolveApproval settles, after the approval_request of
\* that request, and never for a request that timed out or was cancelled.
C33_ResolvedEventOnce ==
  /\ [][\A id \in DOMAIN promise :
          Settles(id) =>
            /\ ResolvedEventAppended(id)
            /\ \E j \in RequestEvents(events) : events[j].requestId = id]_vars
  /\ ResolvedEventsOnlyForResolved

\* C33, amended: the same while an emitter is installed; resolveApproval emits
\* nothing while none is, and the approval_resolved of a request comes after
\* its approval_request whenever that was emitted (the emitter was installed
\* when the request was registered).
C33_ResolvedEventOnceWithEmitter ==
  /\ [][\A id \in DOMAIN promise :
          Settles(id) =>
            IF eventEmitter THEN ResolvedEventAppended(id) ELSE events' = events]_vars
  /\ [](\A i \in ResolvedEvents(events), j \in RequestEvents(events) :
          events[i].requestId = events[j].requestId => j < i)
  /\ ResolvedEventsOnlyForResolved

\* Two requests were announced; the first was resolved and its event emitted,
\* the second was cancelled or timed out without one.
C33_Witness ==
  /\ Len(events) = 3
  /\ RequestEvents(events) = {1, 2}
  /\ events[3].type = "approval_resolved" /\ events[3].requestId = 1
  /\ ~events[3].pending /\ events[3].settled
  /\ promise[1].state = "fulfilled"
  /\ promise[2].state = "rejected"

C35_PreviewAtMost200 ==
  (fnOut # <<>> /\ fnOut[1] # <<>>) =>
    LET preview == fnOut[1][1]
    IN /\ PreviewLength(preview) <= 200
       /\ fnIn.content.length <= 200 =>
            preview.kept = fnIn.content.length /\ ~preview.ellipsis
       /\ fnIn.content.length > 200 =>
            preview.kept < fnIn.content.length /\ preview.ellipsis

\* C36: within one invocation of a wrapped tool the denial and what is done
\* about it rest on the same mode value, whatever the getter returns at its
\* second read: a denial under plan mode opens no approval request, and a
\* denial under ask mode with session key and run id opens one.
C36_DenialAndBranchSameMode ==
  [][\A tool \in WrappedTools, p \in CallPaths, ctx \in WrapContexts,
       mCheck \in ModeValues, mBranch \in ModeValues :
       (/\ ~CheckPermissionMode(tool.operation, p, mCheck, ctx.homeDir).allowed
        /\ WrapperInvoke(tool, p, ctx, mCheck, mBranch))
         => /\ mCheck = "plan" => UNCHANGED <<nextId, pendingApprovals>>
            /\ (mCheck = "ask" /\ ctx.sessionKey # None /\ ctx.runId # None) =>
                 /\ nextId' = nextId + 1
                 /\ nextId \in DOMAIN pendingApprovals']_vars

\* What recordAuthFailure(ip) would return in the current state.
FailureResultNow(ip) ==
  AuthFailureResult(EntryOf(authFailuresByIp, ip, FreshAuthEntry))

\* C37: the janitor is pure garbage collection: the result (allowed or denied,
\* and retry_after_ms) of the checkConnection, checkRpcCall, checkAuthAttempt
\* or recordAuthFailure that follows a run of cleanup is the one the same call
\* would have had without that run.
C37_JanitorIsPure ==
  [][Cleanup =>
       /\ \A ip \in TrackedIps :
            /\ ConnectionResult(ip)' = ConnectionResult(ip)
            /\ AuthAttemptResult(ip)' = AuthAttemptResult(ip)
            /\ FailureResultNow(ip)' = FailureResultNow(ip)
       /\ \A c \in ConnIds : RpcResult(c)' = RpcResult(c)]_vars

\* The backoff multiplier recordAuthFailure(ip) starts from.
MultiplierOf(ip) == EntryOf(authFailuresByIp, ip, FreshAuthEntry).backoffMultiplier

\* C38: while the IP's auth record exists its backoff multiplier never
\* decreases; a lockout opened when no lockout is active lasts windowMs * the
\* multiplier the record has retained; and a multiplier above 1 is back at 1
\* only after clearAuthFailures or after the janitor evicted the record.
C38_MultiplierRetained ==
  [][\A ip \in TrackedIps :
       /\ (ip \in DOMAIN authFailuresByIp /\ ip \in DOMAIN authFailuresByIp') =>
            authFailuresByIp'[ip].backoffMultiplier >= authFailuresByIp[ip].backoffMultiplier
       /\ (/\ ip \in DOMAIN authFailuresByIp
           /\ ~ActiveLockout(ip)
           /\ RecordAuthFailure(ip)
           /\ ActiveLockout(ip)') =>
            /\ authFailuresByIp'[ip].lockoutUntil = now + AuthWindowMs * MultiplierOf(ip)
            /\ lastFailure'[ip].result.retryAfterMs = AuthWindowMs * MultiplierOf(ip)
       /\ (MultiplierOf(ip) > 1 /\ MultiplierOf(ip)' = 1) =>
            \/ ClearAuthFailures(ip)
            \/ Cleanup /\ ip \notin DOMAIN authFailuresByIp']_vars

\* A lockout with multiplier 2 has expired, and the failure recorded at its
\* deadline opened a lockout of two windows.
C38_Witness ==
  /\ config.authFailuresBeforeLockout = 1
  /\ failureLog["ip1"] = <<0, 0, AuthWindowMs * 2>>
  /\ now = AuthWindowMs * 2
  /\ "ip1" \in DOMAIN lastFailure
  /\ lastFailure["ip1"] =
       [result |-> RateDenied("auth locked out after failures", AuthWindowMs * 2),
        at |-> now]
  /\ ActiveLockout("ip1")
  /\ authFailuresByIp["ip1"].lockoutUntil = now + AuthWindowMs * 2

\* C39: resolveApproval(id) and the timeout of id, for a pending id, leave
\* every other pending request as it was, with its timer armed and its promise
\* unsettled, and the pending count is one less.
C39_OnlyThatRequest ==
  [][\A id \in RequestIds :
       (/\ HasPendingApproval(id)
        /\ \/ \E d \in Decisions : ResolveApproval(id, d)
           \/ TimerFire(id)) =>
         /\ \A other \in DOMAIN pendingApprovals \ {id} :
              /\ HasPendingApproval(other)'
              /\ pendingApprovals'[other] = pendingApprovals[other]
              /\ other \in timers'
              /\ promise'[other] = Unsettled
         /\ ~HasPendingApproval(id)'
         /\ GetPendingApprovalCount' = GetPendingApprovalCount - 1]_vars

\* Two requests of session S2 and its run R3 were pending; the first was
\* resolved and the second is still pending with its timer armed.
C39_Witness ==
  /\ \A id \in {1, 2} :
       \E i \in 1..Len(events) :
         /\ events[i].type = "approval_request"
         /\ events[i].requestId = id
         /\ events[i].sessionKey = "S2"
  /\ promise[1].state = "fulfilled"
  /\ HasPendingApproval(2)
  /\ pendingApprovals[2].request.runId = "R3"
  /\ 2 \in timers
  /\ promise[2] = Unsettled
  /\ GetPendingApprovalCount = 1

\* The timestamps counted for a key, and the instant from which the last
\* denied call for the key said the next call is allowed.
TimestampsOf(map, key) == EntryOf(map, key, <<>>)

AllowedFrom(key) == lastCheck[key].at + lastCheck[key].result.retryAfterMs

DeniedLast(key) == key \in DOMAIN lastCheck /\ ~lastCheck[key].result.allowed

\* What a call for `key` on `map` must leave when C40 holds of it.
DeniedRecordsNothing(map, key, others, windowMs) ==
  /\ ~lastCheck'[key].result.allowed =>
       /\ TimestampsOf(map', key) =
            SelectSeq(TimestampsOf(map, key), LAMBDA ts : ts > now - windowMs)
       /\ DeniedLast(key) => AllowedFrom(key)' <= AllowedFrom(key)
  /\ \A other \in others \ {key} : TimestampsOf(map', other) = TimestampsOf(map, other)

\* C40: a denied checkConnection or checkRpcCall records no timestamp (the
\* timestamps counted for the key are those of before, the expired ones
\* pruned); a denial that follows a denial does not postpone the instant from
\* which the next call is allowed; and a call for one IP or connection leaves
\* the outcome for every other IP and connection as it was.
C40_DeniedCallRecordsNothing ==
  [][/\ \A ip \in Ips :
          CheckConnection(ip) =>
            /\ DeniedRecordsNothing(connectionsByIp, ip, Ips, ConnectionWindowMs)
            /\ \A other \in Ips \ {ip} : ConnectionResult(other)' = ConnectionResult(other)
            /\ \A c \in PeerConns : RpcResult(c)' = RpcResult(c)
     /\ \A c \in PeerConns :
          CheckRpcCall(c) =>
            /\ DeniedRecordsNothing(rpcCallsByConnection, c, PeerConns, RpcWindowMs)
            /\ \A other \in PeerConns \ {c} : RpcResult(other)' = RpcResult(other)
            /\ \A ip \in Ips : ConnectionResult(ip)' = ConnectionResult(ip)]_vars

\* With limits of one, ip1 and conn1 were allowed at 0 and refused in the last
\* millisecond of the RPC window, where ip2 and conn2 were then allowed.
C40_Witness ==
  /\ config.connectionsPerMinute = 1
  /\ now = RpcWindowMs - 1
  /\ {"ip1", "ip2", "conn1", "conn2"} \subseteq DOMAIN lastCheck
  /\ lastCheck["ip1"] =
       [result |-> RateDenied("connection rate limit exceeded", ConnectionWindowMs - now),
        at |-> now]
  /\ lastCheck["conn1"] = [result |-> RateDenied("RPC rate limit exceeded", 1), at |-> now]
  /\ connectionsByIp["ip1"] = <<0>>
  /\ rpcCallsByConnection["conn1"] = <<0>>
  /\ admitted["ip2"] = <<now>>
  /\ admitted["conn2"] = <<now>>

====
